---- MODULE Spec2Model ----
(***************************************************************************)
(* Model of the local coding agent (v659/coding_agent):                    *)
(*   - run_once, the action loop of local_agent/orchestrator.py;           *)
(*   - the sandbox tools of local_agent/tools.py;                          *)
(*   - the shell policy guard of local_agent/policy.py.                    *)
(* The language model, the verifier bot, the verification commands and the *)
(* outcome of a tool dispatched by the loop are the environment: their     *)
(* answers are drawn from small sets.                                      *)
(***************************************************************************)
EXTENDS Integers, Sequences, FiniteSets, TLC

VARIABLES
    max_steps,              \* cfg.max_steps
    store,                  \* SessionStore rows of this session, oldest first
    history,                \* run_once: history
    edited_files,           \* run_once: edited_files (a list)
    latest_verify_result,   \* run_once: latest_verify_result
    repeated_error_counts,  \* run_once: repeated_error_counts
    step,                   \* loop iterations completed so far
    pc,                     \* position of the running operation
    attempts,               \* _model_step: failed requests of the current step
    first_exc,              \* _model_step: exc, the first attempt's parse failure
    last_exc,               \* _model_step: the failure of the latest attempt
    result,                 \* the text run_once returned
    verify_runs,            \* calls of _auto_verify in this turn
    verifier_calls,         \* calls of run_verifier_bot in this turn
    verifier_arg,           \* verify_result handed to the latest verifier call
    exc,                    \* the exception that left run_once, if one did
    call,                   \* arguments of the tool call under study
    files,                  \* filesystem: regular files by resolved location
    out,                    \* outcome of the tool call under study
    io                      \* filesystem and process operations performed

loopVars == <<max_steps, store, history, edited_files, latest_verify_result,
              repeated_error_counts, step, pc, attempts, first_exc, last_exc,
              result, verify_runs, verifier_calls, verifier_arg, exc>>
toolVars == <<call, files, out, io>>
vars == <<max_steps, store, history, edited_files, latest_verify_result,
          repeated_error_counts, step, pc, attempts, first_exc, last_exc,
          result, verify_runs, verifier_calls, verifier_arg, exc,
          call, files, out, io>>

(***************************************************************************)
(* Bounds of the model.                                                    *)
(***************************************************************************)
MaxSteps == 7

(***************************************************************************)
(* Program constants.                                                      *)
(***************************************************************************)
_MAX_HISTORY_MESSAGES == 6
_VERIFICATION_RESERVED_STEPS == 4
AbortThreshold == 3

Max(a, b) == IF a >= b THEN a ELSE b
Min(a, b) == IF a <= b THEN a ELSE b

(***************************************************************************)
(* The step budget (run_once, first three statements).                     *)
(***************************************************************************)
total_steps_of(ms) == Max(1, ms)
reserved_steps_of(ms) ==
    Min(_VERIFICATION_RESERVED_STEPS, Max(total_steps_of(ms) - 1, 0))
execution_step_limit_mut(ms) == total_steps_of(ms)
execution_step_limit_of(ms) ==
    Max(1, total_steps_of(ms) - reserved_steps_of(ms))

total_steps == total_steps_of(max_steps)
reserved_steps == reserved_steps_of(max_steps)
execution_step_limit == execution_step_limit_of(max_steps)

(***************************************************************************)
(* The tool registry, as the loop uses it.                                 *)
(***************************************************************************)
_KNOWN_TOOL_NAMES ==
    {"list_files", "read_file", "write_file", "search_text", "patch_file", "run_shell"}
UnknownTool == "bogus_tool"
ActionToolNames == _KNOWN_TOOL_NAMES \cup {UnknownTool}
\* _TOOL_REQUIRED_ARGS[name] is non-empty
HasRequiredArgs(name) == name \in (_KNOWN_TOOL_NAMES \ {"list_files"})

MissingArg == "Missing required argument"
ToolFailure == "tool error"
Unexpected == "Unexpected tool error"
ErrorTexts == {MissingArg, ToolFailure, Unexpected}
\* the error texts a dispatch of `name` can end with
ErrorsOf(name) ==
    IF name \in {"read_file", "patch_file"} THEN {MissingArg, ToolFailure}
    ELSE IF name = "run_shell" THEN {ToolFailure, Unexpected}
    ELSE {ToolFailure}

\* the successful edits a turn can make: the tool and the path its result names
EditTargets == {<<"write_file", "a.py">>, <<"patch_file", "b.py">>}

(***************************************************************************)
(* Texts.  A text is a record naming what the text is made of.             *)
(***************************************************************************)
Msg(kind, tool, err, detail, verifier, n) ==
    [kind |-> kind, tool |-> tool, err |-> err, detail |-> detail,
     verifier |-> verifier, n |-> n]
NoResult == Msg("none", "-", "-", "-", "-", 0)
UserInput == Msg("instruction", "-", "-", "-", "-", 0)
PriorMsg(i) == Msg("prior", "-", "-", "-", "-", i)

Row(role, content) == [role |-> role, content |-> content]
PriorRow(i) == Row(IF i % 2 = 1 THEN "user" ELSE "assistant", PriorMsg(i))

Entry(role, kind, tool, ok, err, n) ==
    [role |-> role, kind |-> kind, tool |-> tool, ok |-> ok, err |-> err, n |-> n]

ParseErrors == {"parse_detail_1", "parse_detail_2"}
VerifierTexts == {"verifier summary"}

NoReport == [present |-> FALSE, compile |-> FALSE, behavior |-> FALSE,
             overall_pass |-> FALSE]
\* a report of _auto_verify: overall_pass is the conjunction of the two passes
ReportMut(c, b) ==
    [present |-> TRUE, compile |-> c, behavior |-> b, overall_pass |-> c]
Report(c, b) == [present |-> TRUE, compile |-> c, behavior |-> b,
                 overall_pass |-> (c /\ b)]

\* SessionStore.load(session_id, limit): the most recent `limit` rows, oldest first
load(rows, limit) ==
    IF Len(rows) <= limit THEN rows
    ELSE SubSeq(rows, Len(rows) - limit + 1, Len(rows))

PriorLens == {0, _MAX_HISTORY_MESSAGES + 1}

IdleCall == [tool |-> "-"]
IdleOut == [ok |-> FALSE, error |-> "-"]

(***************************************************************************)
(* _is_progress_only_message.  The content of a message is the set of the   *)
(* phrases it holds, written in lower or in upper case.                    *)
(***************************************************************************)
progress_markers ==
    {"i will now", "i'll now", "i will", "i have the full", "i have gathered",
     "i have located", "i can now", "i will proceed", "proceed with"}
completion_markers ==
    {"done", "completed", "updated", "changed", "verification", "compiled", "summary"}

Content(phrases, upper) == [phrases |-> phrases, upper |-> upper]

\* str.lower()
lower_mut(content) == content
lower(content) == Content(content.phrases, FALSE)

\* the lower-case markers that are substrings of a lower-case phrase
Substrings(phrase) ==
    {phrase} \cup (IF phrase \in {"i will now", "i will proceed"} THEN {"i will"} ELSE {})

\* `marker in text`, the marker being lower case
Contains(text, marker) ==
    ~text.upper /\ \E phrase \in text.phrases : marker \in Substrings(phrase)

_is_progress_only_message(content) ==
    LET text == lower(content)
    IN /\ \E marker \in progress_markers : Contains(text, marker)
       /\ ~(\E marker \in completion_markers : Contains(text, marker))

\* the contents of the message actions of a turn
MessageContents ==
    {Content({"i will now"}, TRUE),
     Content({"proceed with", "updated"}, FALSE),
     Content({"i will proceed", "done"}, TRUE),
     Content({"updated"}, TRUE),
     Content({"hello"}, FALSE)}

(***************************************************************************)
(* run_once: the action loop.                                              *)
(***************************************************************************)
SystemEntry == Entry("system", "prompt", "-", TRUE, "-", 0)
InstructionEntry == Entry("user", "instruction", "-", TRUE, "-", 0)
SeedEntry(row) == Entry(row.role, "prior", "-", TRUE, "-", row.content.n)
ActionEntry(name) == Entry("assistant", "action", name, TRUE, "-", 0)
ResultEntryMut(name, ok, err) == ActionEntry(name)
ResultEntry(name, ok, err) == Entry("user", "result", name, ok, err, 0)
CorrectionEntry(name) == Entry("user", "correction", name, TRUE, "-", 0)
VerifyEntry(report) == Entry("user", "result", "auto_verify", report.overall_pass, "-", 0)
ProgressEntry(content) ==
    [role |-> "assistant", kind |-> "progress", tool |-> "-", ok |-> TRUE,
     err |-> "-", n |-> 0, content |-> content]
ContinueEntry == Entry("user", "continue", "-", TRUE, "-", 0)

InitTools ==
    /\ call = IdleCall
    /\ files = <<>>
    /\ out = IdleOut
    /\ io = {}

Init ==
    /\ max_steps \in 0..MaxSteps
    /\ \E n \in PriorLens : store = [i \in 1..n |-> PriorRow(i)]
    /\ history = <<>>
    /\ edited_files = <<>>
    /\ latest_verify_result = NoReport
    /\ repeated_error_counts = [sig \in ActionToolNames \X ErrorTexts |-> 0]
    /\ step = 0
    /\ pc = "start"
    /\ attempts = 0
    /\ first_exc = "-"
    /\ last_exc = "-"
    /\ result = NoResult
    /\ verify_runs = 0
    /\ verifier_calls = 0
    /\ verifier_arg = NoReport
    /\ exc = "-"
    /\ InitTools

\* run_once up to the loop: seed the history, persist the user instruction
Start ==
    /\ pc = "start"
    /\ history' = <<SystemEntry>>
                    \o [i \in 1..Len(load(store, _MAX_HISTORY_MESSAGES)) |->
                            SeedEntry(load(store, _MAX_HISTORY_MESSAGES)[i])]
                    \o <<InstructionEntry>>
    /\ store' = Append(store, Row("user", UserInput))
    /\ edited_files' = <<>>
    /\ latest_verify_result' = NoReport
    /\ repeated_error_counts' = [sig \in ActionToolNames \X ErrorTexts |-> 0]
    /\ pc' = "request"
    /\ UNCHANGED <<exc, max_steps, step, attempts, first_exc, last_exc, result,
                   verify_runs, verifier_calls, verifier_arg>>
    /\ UNCHANGED toolVars

\* store.append(session_id, "assistant", message); return message
Return(message) ==
    /\ store' = Append(store, Row("assistant", message))
    /\ result' = message
    /\ pc' = "returned"

\* for step in range(execution_step_limit): is there an iteration number s?
LoopContinuesMut(s) == s <= execution_step_limit
LoopContinues(s) == s < execution_step_limit

\* `continue`: the next iteration of the for loop, or the code after it
ContinueMut ==
    /\ step' = step + 1
    /\ pc' = "finalize"
Continue ==
    /\ step' = step + 1
    /\ pc' = IF LoopContinues(step + 1) THEN "request" ELSE "finalize"

\* _model_step: a request whose answer _extract_json decodes
RequestOk ==
    /\ pc = "request"
    /\ pc' = "act"
    /\ attempts' = 0
    /\ first_exc' = "-"
    /\ UNCHANGED <<exc, max_steps, store, history, edited_files, latest_verify_result,
                   repeated_error_counts, step, last_exc, result, verify_runs,
                   verifier_calls, verifier_arg>>
    /\ UNCHANGED toolVars

\* _model_step: the nested try blocks send another request after the first and
\* after the second failed one; n is the number of requests that failed so far
RetryAllowedMut(n) == n < 3
RetryAllowed(n) == n < 2

\* _model_step: a request whose answer raises json.JSONDecodeError
RequestBadJson ==
    /\ pc = "request"
    /\ \E e \in ParseErrors :
         IF RetryAllowed(attempts)
         THEN /\ attempts' = attempts + 1
              /\ first_exc' = IF attempts = 0 THEN e ELSE first_exc
              /\ UNCHANGED <<store, result, pc, last_exc>>
         ELSE /\ attempts' = attempts + 1
              /\ last_exc' = e
              /\ Return(Msg("parse_error", "-", "-", first_exc, "-", 0))
              /\ UNCHANGED first_exc
    /\ UNCHANGED <<exc, max_steps, history, edited_files, latest_verify_result,
                   repeated_error_counts, step, verify_runs, verifier_calls,
                   verifier_arg>>
    /\ UNCHANGED toolVars

\* _model_step: a request that raises APIError
RequestApiError ==
    /\ pc = "request"
    /\ IF attempts = 0
       THEN /\ Return(Msg("api_error", "-", "-", "-", "-", 0))
            /\ attempts' = 1
            /\ UNCHANGED <<first_exc, last_exc>>
       ELSE IF attempts = 1
       THEN /\ attempts' = 2
            /\ UNCHANGED <<store, result, pc, first_exc, last_exc>>
       ELSE /\ attempts' = 3
            /\ last_exc' = "api_error"
            /\ Return(Msg("parse_error", "-", "-", first_exc, "-", 0))
            /\ UNCHANGED first_exc
    /\ UNCHANGED <<exc, max_steps, history, edited_files, latest_verify_result,
                   repeated_error_counts, step, verify_runs, verifier_calls,
                   verifier_arg>>
    /\ UNCHANGED toolVars

\* the decoded value is no mapping, or its type is unhashable:
\* _normalize_action raises AttributeError / TypeError, which run_once lets through
ActNonObject ==
    /\ pc = "act"
    /\ pc' = "raised"
    /\ exc' \in {"AttributeError", "TypeError"}
    /\ UNCHANGED <<max_steps, store, history, edited_files, latest_verify_result,
                   repeated_error_counts, step, attempts, first_exc, last_exc,
                   result, verify_runs, verifier_calls, verifier_arg>>
    /\ UNCHANGED toolVars

\* type = "message" failing MessageAction.model_validate
ActMessageInvalid ==
    /\ pc = "act"
    /\ Return(Msg("invalid_message", "-", "-", "-", "-", 0))
    /\ UNCHANGED <<exc, max_steps, history, edited_files, latest_verify_result,
                   repeated_error_counts, step, attempts, first_exc, last_exc,
                   verify_runs, verifier_calls, verifier_arg>>
    /\ UNCHANGED toolVars

\* a message _is_progress_only_message accepts
ActMessageProgress ==
    /\ pc = "act"
    /\ \E content \in MessageContents :
         /\ _is_progress_only_message(content)
         /\ history' = history \o <<ProgressEntry(content), ContinueEntry>>
    /\ Continue
    /\ UNCHANGED <<exc, max_steps, store, edited_files, latest_verify_result,
                   repeated_error_counts, attempts, first_exc, last_exc, result,
                   verify_runs, verifier_calls, verifier_arg>>
    /\ UNCHANGED toolVars

\* `if edited_files:` before the final answer is returned
FinalWantsVerifierMut(edited) == FALSE
FinalWantsVerifier(edited) == edited # <<>>

\* any other message: the final answer
ActMessageFinal ==
    /\ pc = "act"
    /\ \E content \in MessageContents :
         /\ ~_is_progress_only_message(content)
         /\ IF FinalWantsVerifier(edited_files)
            THEN \E v \in VerifierTexts :
                   /\ verifier_calls' = verifier_calls + 1
                   /\ verifier_arg' = latest_verify_result
                   /\ Return(Msg("final", "-", "-", content, v, 0))
            ELSE /\ Return(Msg("final", "-", "-", content, "-", 0))
                 /\ UNCHANGED <<verifier_calls, verifier_arg>>
    /\ UNCHANGED <<exc, max_steps, history, edited_files, latest_verify_result,
                   repeated_error_counts, step, attempts, first_exc, last_exc,
                   verify_runs>>
    /\ UNCHANGED toolVars

\* type = "tool" failing ToolAction.model_validate
ActToolInvalid ==
    /\ pc = "act"
    /\ LET name == "patch_file"
       IN history' = history \o
             <<ActionEntry(name), ResultEntry(name, FALSE, "Invalid tool action")>>
    /\ Continue
    /\ UNCHANGED <<exc, max_steps, store, edited_files, latest_verify_result,
                   repeated_error_counts, attempts, first_exc, last_exc, result,
                   verify_runs, verifier_calls, verifier_arg>>
    /\ UNCHANGED toolVars

\* the threshold test of the circuit breaker
BreakerTripsMut(count) == count > AbortThreshold
BreakerTripsEarly(count) == count >= AbortThreshold - 1
BreakerTrips(count) == count >= AbortThreshold

\* a dispatch that raises ToolError or another Exception
ActToolFail ==
    /\ pc = "act"
    /\ \E name \in ActionToolNames : \E err \in ErrorsOf(name) :
         LET sig == <<name, err>>
             count == repeated_error_counts[sig] + 1
         IN /\ repeated_error_counts' = [repeated_error_counts EXCEPT ![sig] = count]
            /\ history' = history
                   \o <<ActionEntry(name), ResultEntry(name, FALSE, err)>>
                   \o (IF HasRequiredArgs(name) /\ err = MissingArg
                       THEN <<CorrectionEntry(name)>> ELSE <<>>)
            /\ IF BreakerTrips(count)
               THEN /\ Return(Msg("abort", name, err, "-", "-", 0))
                    /\ UNCHANGED step
               ELSE /\ Continue
                    /\ UNCHANGED <<store, result>>
    /\ UNCHANGED <<exc, max_steps, edited_files, latest_verify_result, attempts,
                   first_exc, last_exc, verify_runs, verifier_calls, verifier_arg>>
    /\ UNCHANGED toolVars

\* the tools whose success triggers _auto_verify
VerifiedToolsMut == {"write_file"}
VerifiedTools == {"write_file", "patch_file"}

\* a successful dispatch of a tool that edits nothing
ActToolOk ==
    /\ pc = "act"
    /\ \E name \in _KNOWN_TOOL_NAMES \ VerifiedTools :
         history' = history \o <<ActionEntry(name), ResultEntry(name, TRUE, "-")>>
    /\ Continue
    /\ UNCHANGED <<exc, max_steps, store, edited_files, latest_verify_result,
                   repeated_error_counts, attempts, first_exc, last_exc, result,
                   verify_runs, verifier_calls, verifier_arg>>
    /\ UNCHANGED toolVars

\* edited_files after a successful edit of `path`
AddEditedMut(list, path) == Append(list, path)
AddEdited(list, path) ==
    IF \E i \in 1..Len(list) : list[i] = path THEN list ELSE Append(list, path)

\* a successful write_file / patch_file, then _auto_verify with both commands returning
ActEditOk ==
    /\ pc = "act"
    /\ \E target \in EditTargets, c \in BOOLEAN, b \in BOOLEAN :
       LET name == target[1]
           path == target[2]
       IN
         /\ name \in VerifiedTools
         /\ edited_files' = AddEdited(edited_files, path)
         /\ latest_verify_result' = Report(c, b)
         /\ history' = history \o <<ActionEntry(name), ResultEntry(name, TRUE, "-"),
                                    VerifyEntry(Report(c, b))>>
    /\ verify_runs' = verify_runs + 1
    /\ Continue
    /\ UNCHANGED <<exc, max_steps, store, repeated_error_counts, attempts, first_exc,
                   last_exc, result, verifier_calls, verifier_arg>>
    /\ UNCHANGED toolVars

\* a successful edit whose _auto_verify raises subprocess.TimeoutExpired
ActEditVerifyTimeout ==
    /\ pc = "act"
    /\ \E target \in EditTargets :
       LET name == target[1]
           path == target[2]
       IN
         /\ name \in VerifiedTools
         /\ edited_files' = AddEdited(edited_files, path)
         /\ history' = history \o <<ActionEntry(name), ResultEntry(name, TRUE, "-")>>
    /\ verify_runs' = verify_runs + 1
    /\ pc' = "raised"
    /\ exc' = "TimeoutExpired"
    /\ UNCHANGED <<max_steps, store, latest_verify_result, repeated_error_counts,
                   step, attempts, first_exc, last_exc, result, verifier_calls,
                   verifier_arg>>
    /\ UNCHANGED toolVars

\* a type that is neither "message" nor "tool"
ActUnknownType ==
    /\ pc = "act"
    /\ Return(Msg("unknown_type", "-", "-", "-", "-", 0))
    /\ UNCHANGED <<exc, max_steps, history, edited_files, latest_verify_result,
                   repeated_error_counts, step, attempts, first_exc, last_exc,
                   verify_runs, verifier_calls, verifier_arg>>
    /\ UNCHANGED toolVars

VerifyOutcomes == {"pass", "compile_fail", "behavior_fail", "both_fail", "timeout"}
ReportOf(o) == Report(o \in {"pass", "behavior_fail"}, o \in {"pass", "compile_fail"})

\* `if edited_files:` after the loop
SummaryWantedMut(edited) == TRUE
SummaryWanted(edited) == edited # <<>>

\* `if latest_verify_result is None:` in the finalization phase
NeedsVerificationMut(report) == TRUE
NeedsVerification(report) == ~report.present

\* the code after the loop: the reserved finalization phase
Finalize ==
    /\ pc = "finalize"
    /\ IF SummaryWanted(edited_files)
       THEN \E o \in VerifyOutcomes, v \in VerifierTexts :
              LET rerun == NeedsVerification(latest_verify_result)
                  report == IF rerun THEN ReportOf(o) ELSE latest_verify_result
              IN IF rerun /\ o = "timeout"
                 THEN /\ pc' = "raised"
                      /\ exc' = "TimeoutExpired"
                      /\ verify_runs' = verify_runs + 1
                      /\ UNCHANGED <<store, result, latest_verify_result,
                                     verifier_calls, verifier_arg>>
                 ELSE /\ latest_verify_result' = report
                      /\ UNCHANGED exc
                      /\ verify_runs' = IF rerun THEN verify_runs + 1 ELSE verify_runs
                      /\ verifier_calls' = verifier_calls + 1
                      /\ verifier_arg' = report
                      /\ Return(Msg("timeout", "-", "-", "-", v, 0))
       ELSE /\ Return(Msg("budget", "-", "-", "-", "-", 0))
            /\ UNCHANGED <<exc, latest_verify_result, verify_runs, verifier_calls,
                           verifier_arg>>
    /\ UNCHANGED <<max_steps, history, edited_files, repeated_error_counts, step,
                   attempts, first_exc, last_exc>>
    /\ UNCHANGED toolVars

Next ==
    \/ Start
    \/ RequestOk
    \/ RequestBadJson
    \/ RequestApiError
    \/ ActNonObject
    \/ ActMessageInvalid
    \/ ActMessageProgress
    \/ ActMessageFinal
    \/ ActToolInvalid
    \/ ActToolFail
    \/ ActToolOk
    \/ ActEditOk
    \/ ActEditVerifyTimeout
    \/ ActUnknownType
    \/ Finalize

Spec == Init /\ [][Next]_vars

\* run_once is sequential code: as long as every model request, verifier call and
\* shell command comes back, the statement it stands at is executed
FairSpec == Spec /\ WF_vars(Next)

(***************************************************************************)
(* Claims about the action loop, checked under Spec.                       *)
(***************************************************************************)
\* the number of entries of seq[1..n] that satisfy P
CountIn(seq, n, P(_)) == Cardinality({i \in 1..n : P(seq[i])})

TurnEnded == pc \in {"returned", "raised"}
TurnRunning == pc \in {"request", "act", "finalize"}

\* the rows this turn appended to the store
TurnRows == SelectSeq(store, LAMBDA row : row.content.kind # "prior")

\* C1: every turn appends exactly two rows to the session store: the user
\* instruction before any model request, then one assistant row holding the text
\* the turn returns; nothing else is appended.
C1_TwoAppendsPerTurn ==
    /\ TurnRunning => TurnRows = <<Row("user", UserInput)>>
    /\ TurnEnded => /\ result # NoResult
                    /\ TurnRows = <<Row("user", UserInput), Row("assistant", result)>>

\* the failed dispatches of `sig` recorded in the history
FailedDispatches(sig) ==
    CountIn(history, Len(history),
            LAMBDA e : e.kind = "result" /\ ~e.ok /\ e.tool = sig[1] /\ e.err = sig[2])

C3_ExecutionLimit ==
    LET total == IF max_steps < 1 THEN 1 ELSE max_steps
    IN /\ total > 4 => execution_step_limit = total - 4
       /\ total <= 5 => execution_step_limit = 1
       /\ reserved_steps = (IF total - 1 < 4 THEN total - 1 ELSE 4)
       /\ execution_step_limit + reserved_steps = total
       /\ step <= (IF total > 4 THEN total - 4 ELSE 1)

C3_Witness ==
    /\ max_steps = 7
    /\ pc = "finalize"
    /\ step = 3

\* the actions taken from the model and processed so far in this turn
ProcessedActions ==
    CountIn(history, Len(history),
            LAMBDA e : e.role = "assistant" /\ e.kind \in {"action", "progress"})
    + (IF result.kind \in {"final", "invalid_message", "unknown_type"} THEN 1 ELSE 0)

\* C4: the actions processed in a turn (tool dispatches, schema-invalid tool
\* actions, progress-only messages and accepted messages) never outnumber
\* execution_limit, and the loop never starts an iteration beyond it.
C4_AtMostLimitIterations ==
    /\ ProcessedActions <= execution_step_limit
    /\ step <= execution_step_limit
    /\ pc \in {"request", "act"} => step < execution_step_limit

C4_Witness ==
    /\ pc = "finalize"
    /\ execution_step_limit = 3
    /\ ProcessedActions = 3
    /\ \E i \in 1..Len(history) : history[i].kind = "progress"
    /\ \E i \in 1..Len(history) : history[i].kind = "result" /\ ~history[i].ok
    /\ \E i \in 1..Len(history) : history[i].kind = "result" /\ history[i].ok

BudgetExhausted == pc = "returned" /\ result.kind \in {"timeout", "budget"}

\* C5 as stated: whenever the budget runs out, the finalization phase requests
\* exactly one verifier summary and the timeout message includes it.
C5_Original ==
    BudgetExhausted => /\ verifier_calls = 1
                       /\ result.verifier \in VerifierTexts

\* C5 as amended: the finalization phase runs only after execution_limit
\* iterations and ends the turn with one message. If a file was edited, exactly
\* one verifier summary is requested, on the retained verification report, and the
\* timeout message includes it; if no file was edited, no verification and no
\* verifier call happen and the message is the plain budget message.
C5_Finalization ==
    /\ pc = "finalize" => step = execution_step_limit /\ result = NoResult
    /\ BudgetExhausted =>
          /\ step = execution_step_limit
          /\ TurnRows = <<Row("user", UserInput), Row("assistant", result)>>
          /\ IF edited_files # <<>>
             THEN /\ result.kind = "timeout"
                  /\ result.verifier \in VerifierTexts
                  /\ verifier_calls = 1
                  /\ latest_verify_result.present
                  /\ verifier_arg = latest_verify_result
             ELSE /\ result = Msg("budget", "-", "-", "-", "-", 0)
                  /\ verifier_calls = 0
                  /\ verify_runs = 0

C5_Witness ==
    /\ BudgetExhausted
    /\ result.kind = "timeout"
    /\ verifier_calls = 1
    /\ Len(edited_files) = 2

EditTools == {"write_file", "patch_file"}
IsEditSuccess(e) == e.kind = "result" /\ e.ok /\ e.tool \in EditTools
IsVerifyEntry(e) == e.kind = "result" /\ e.tool = "auto_verify"

\* C10: the verification runs of a turn are as many as its successful write_file
\* and patch_file dispatches; each report directly follows the result of the edit
\* that triggered it in the history, and no report follows anything else (a failed
\* edit, another tool, a message).
C10_VerifyOncePerEdit ==
    /\ verify_runs = CountIn(history, Len(history), IsEditSuccess)
    /\ \A i \in 1..Len(history) :
          /\ IsVerifyEntry(history[i]) => i > 1 /\ IsEditSuccess(history[i - 1])
          /\ IsEditSuccess(history[i]) =>
                IF i < Len(history) THEN IsVerifyEntry(history[i + 1])
                ELSE pc = "raised"

C10_Witness ==
    /\ verify_runs = 2
    /\ pc = "finalize"
    /\ \E i \in 1..Len(history) :
          history[i].kind = "result" /\ ~history[i].ok /\ history[i].tool \in EditTools
    /\ \E i \in 1..Len(history) : IsEditSuccess(history[i]) /\ history[i].tool = "patch_file"
    /\ \E i \in 1..Len(history) : IsEditSuccess(history[i]) /\ history[i].tool = "write_file"

\* C11: the text a turn returns is an accepted final message, the
\* budget-exhaustion message, or the message of parser/model-call exhaustion, of
\* an unknown action type or of a circuit-breaker trip; a schema-invalid tool or
\* message action never ends the turn.
C11_AbnormalEnds ==
    pc = "returned" =>
        result.kind \in {"final", "timeout", "budget", "parse_error", "api_error",
                         "unknown_type", "abort"}

\* C12: no error raised while a tool or a shell command runs (a dispatched tool,
\* an auto-verification command) leaves run_once as an exception: the turn
\* continues or ends with a text result.
C12_NoToolErrorEscapes ==
    /\ exc \notin {"TimeoutExpired", "OSError", "ToolError"}
    /\ (pc = "raised" /\ Len(history) > 0) =>
          ~(history[Len(history)].kind = "result" /\ history[Len(history)].tool # "-")

\* C13: a step asks the model at most three times, and when the three attempts
\* fail the turn ends with the message derived from the third attempt's failure,
\* the only assistant row persisted for the turn.
C13_ParseExhaustion ==
    /\ attempts <= 3
    /\ (pc = "returned" /\ result.kind = "parse_error") =>
          /\ attempts = 3
          /\ result.detail = last_exc
          /\ TurnRows = <<Row("user", UserInput), Row("assistant", result)>>

\* the lower-case phrases a content holds, whatever its letter case
Said(content) == UNION {Substrings(phrase) : phrase \in content.phrases}
ProgressOnly(content) ==
    /\ Said(content) \cap progress_markers # {}
    /\ Said(content) \cap completion_markers = {}

\* C14: a message is treated as progress-only exactly when its content, letter
\* case aside, holds a progress phrase and no completion phrase.  A progress-only
\* message never ends the turn: it is appended to the history, directly followed
\* by the corrective instruction, and the step is used up.  Any other message
\* ends the turn as the final answer with its content.
C14_ProgressOnlyContinues ==
    /\ \A i \in 1..Len(history) :
          history[i].kind = "progress" =>
             /\ ProgressOnly(history[i].content)
             /\ i < Len(history)
             /\ history[i + 1] = ContinueEntry
    /\ CountIn(history, Len(history), LAMBDA e : e.kind = "progress") <= step
    /\ (pc = "returned" /\ result.kind = "final") =>
          /\ ~ProgressOnly(result.detail)
          /\ result.detail \in MessageContents

C14_Witness ==
    /\ pc = "returned"
    /\ result.kind = "final"
    /\ result.detail = Content({"proceed with", "updated"}, FALSE)
    /\ latest_verify_result = Report(TRUE, TRUE)
    /\ \E i \in 1..Len(history) :
          /\ history[i].kind = "progress"
          /\ history[i].content = Content({"i will now"}, TRUE)

\* the position of the last verification report in the history, 0 if none
LastVerifyEntry ==
    IF \E i \in 1..Len(history) : IsVerifyEntry(history[i])
    THEN CHOOSE i \in 1..Len(history) :
            /\ IsVerifyEntry(history[i])
            /\ \A j \in (i + 1)..Len(history) : ~IsVerifyEntry(history[j])
    ELSE 0

\* C16: a final answer returns the model's content alone when no edit succeeded
\* in the turn; when an edit succeeded, one verifier call is made, on the report
\* of the verification that followed the most recent successful edit, and the
\* returned text is the content followed by the verifier summary.
C16_FinalAnswer ==
    (pc = "returned" /\ result.kind = "final") =>
        /\ result.detail \in MessageContents
        /\ IF CountIn(history, Len(history), IsEditSuccess) = 0
           THEN /\ result.verifier = "-"
                /\ verifier_calls = 0
           ELSE /\ result.verifier \in VerifierTexts
                /\ verifier_calls = 1
                /\ verifier_arg.present
                /\ verifier_arg = latest_verify_result
                /\ LastVerifyEntry > 1
                /\ IsEditSuccess(history[LastVerifyEntry - 1])
                /\ \A j \in (LastVerifyEntry + 1)..Len(history) : ~IsEditSuccess(history[j])
                /\ verifier_arg.overall_pass = history[LastVerifyEntry].ok

C16_Witness ==
    /\ pc = "returned"
    /\ result.kind = "final"
    /\ verifier_calls = 1
    /\ Len(edited_files) = 2
    /\ ~verifier_arg.overall_pass
    /\ \E i \in 1..Len(history) : IsVerifyEntry(history[i]) /\ history[i].ok

\* `longer` is `shorter` with entries appended
Extends(longer, shorter) ==
    Len(shorter) <= Len(longer) /\ SubSeq(longer, 1, Len(shorter)) = shorter

\* C17: the history of a turn only grows by appending: no step removes, reorders
\* or changes an entry, and a failed model request leaves it as it is.  Every
\* tool action in it is directly followed by the result of that tool, both
\* appended before the next model request.
C17_HistoryAppendOnly ==
    [][/\ Extends(history', history)
       /\ (pc = "request" /\ pc' # "act") => history' = history
       /\ \A i \in 1..Len(history') :
             history'[i].kind = "action" =>
                /\ i < Len(history')
                /\ history'[i + 1].kind = "result"
                /\ history'[i + 1].role = "user"
                /\ history'[i + 1].tool = history'[i].tool]_vars

C17_Witness ==
    /\ pc = "request"
    /\ attempts = 2
    /\ \E i \in 1..Len(history) : history[i].kind = "result" /\ ~history[i].ok
    /\ \E i \in 1..Len(history) : IsEditSuccess(history[i])
    /\ \E i \in 1..Len(history) : history[i].kind = "progress"

\* a failed tool result: ok = false, and not a verification report
IsFailedResult(e) == e.kind = "result" /\ ~e.ok /\ e.tool # "auto_verify"

\* the (tool name, error text) signatures of the failed tool results of the history
FailedSignatures ==
    {<<history[i].tool, history[i].err>> :
        i \in {j \in 1..Len(history) : IsFailedResult(history[j])}}

\* repeated_error_counts.get(sig, 0)
CountOf(sig) ==
    IF sig \in DOMAIN repeated_error_counts THEN repeated_error_counts[sig] ELSE 0

\* C21: the occurrence count of every (tool name, error text) signature equals the
\* number of failed tool results of that signature folded into the history so far
\* in the turn: each failed result adds one, and successful results, messages and
\* verification reports add nothing.
C21_CountsFailedResults ==
    \A sig \in FailedSignatures \cup DOMAIN repeated_error_counts :
        CountOf(sig) = FailedDispatches(sig)

\* the path the result of a successful edit by `tool` names
EditedPath(tool) == (CHOOSE target \in EditTargets : target[1] = tool)[2]

\* the paths of the successful edits among the first n entries of the history
SuccessfulEditPaths(n) ==
    {EditedPath(history[i].tool) : i \in {j \in 1..n : IsEditSuccess(history[j])}}

\* C23: edited_files holds exactly the paths of the write_file and patch_file
\* dispatches that succeeded so far in the turn, each once, in the order of their
\* first success (so it grows by appending only); a failed edit or another tool
\* adds nothing.
C23_EditedFilesExact ==
    /\ {edited_files[k] : k \in 1..Len(edited_files)} = SuccessfulEditPaths(Len(history))
    /\ \A k \in 1..Len(edited_files) : \A l \in 1..Len(edited_files) :
          k # l => edited_files[k] # edited_files[l]
    /\ \A k \in 1..Len(edited_files) :
          \E i \in 1..Len(history) :
             /\ IsEditSuccess(history[i])
             /\ EditedPath(history[i].tool) = edited_files[k]
             /\ Cardinality(SuccessfulEditPaths(i - 1)) = k - 1

C23_Witness ==
    /\ Len(edited_files) = 2
    /\ CountIn(history, Len(history), IsEditSuccess) = 3
    /\ IsEditSuccess(history[Len(history) - 1])
    /\ EditedPath(history[Len(history) - 1].tool) = edited_files[1]

\* C27: while a turn runs and when it has returned, a non-empty edited_files
\* comes with a recorded verification report; so the finalization phase runs no
\* verification of its own (every verification run of the turn is one that
\* followed an edit and was folded into the history), and every verifier call is
\* handed a report.
C27_EditImpliesReport ==
    pc # "raised" =>
        /\ edited_files # <<>> => latest_verify_result.present
        /\ verify_runs = CountIn(history, Len(history), IsVerifyEntry)
        /\ verifier_calls > 0 => /\ edited_files # <<>>
                                 /\ verifier_arg.present
                                 /\ verifier_arg = latest_verify_result

C27_Witness ==
    /\ pc = "returned"
    /\ result.kind = "timeout"
    /\ Len(edited_files) = 1
    /\ verify_runs = 2
    /\ verifier_calls = 1
    /\ ~verifier_arg.overall_pass

\* every iteration the budget allows was used by a failed dispatch of one signature
SameCallFailedEveryStep ==
    \E sig \in ActionToolNames \X ErrorTexts :
        FailedDispatches(sig) = execution_step_limit

\* C28: a turn ends with the circuit-breaker abort only when execution_limit is 3
\* or more, that is when max_steps is 7 or more; with max_steps of 6 or less a
\* turn in which the same tool call fails on every step ends with the
\* budget-exhaustion message.
C28_AbortNeedsThreeSteps ==
    /\ (pc = "returned" /\ result.kind = "abort") =>
          /\ execution_step_limit >= 3
          /\ max_steps >= 7
    /\ (TurnEnded /\ max_steps <= 6 /\ SameCallFailedEveryStep) =>
          /\ pc = "returned"
          /\ result = Msg("budget", "-", "-", "-", "-", 0)

C28_Witness ==
    /\ pc = "returned"
    /\ max_steps = 6
    /\ execution_step_limit = 2
    /\ repeated_error_counts[<<"read_file", MissingArg>>] = 2
    /\ result.kind = "budget"

\* a verification report with overall_pass false
IsFailedVerify(e) == IsVerifyEntry(e) /\ ~e.ok

\* C30: the step that folds a failing verification report into the history
\* changes no circuit-breaker count and does not end the turn: the loop goes on
\* to its next iteration, or to the finalization phase when the budget is used
\* up.  A turn in which every iteration was an edit whose verification failed
\* ends by budget exhaustion, with the timeout message.
C30_FailedVerifyContinues ==
    [][/\ (/\ Len(history') > Len(history)
           /\ IsFailedVerify(history'[Len(history')])) =>
             /\ repeated_error_counts' = repeated_error_counts
             /\ result' = result
             /\ step' = step + 1
             /\ pc' \in {"request", "finalize"}
             /\ pc' = "finalize" <=> step' = execution_step_limit
       /\ (/\ pc' = "returned"
           /\ CountIn(history', Len(history'), IsFailedVerify) = execution_step_limit) =>
             result'.kind = "timeout"]_vars

C30_Witness ==
    /\ pc = "request"
    /\ step = 2
    /\ CountIn(history, Len(history), IsFailedVerify) = 2
    /\ IsFailedVerify(history[Len(history)])
    /\ \A sig \in DOMAIN repeated_error_counts : repeated_error_counts[sig] = 0

\* C31: when every model request, verifier call and shell command returns, every
\* turn ends (run_once returns its text or is left by an exception), and on the way
\* the loop completes at most execution_limit iterations, no iteration sends a
\* fourth model request, and the verifier is called at most once.
C31_TurnTerminates ==
    /\ <>TurnEnded
    /\ [](/\ step <= execution_step_limit
          /\ pc \in {"request", "act"} => step < execution_step_limit
          /\ attempts <= 3
          /\ pc = "request" => attempts <= 2
          /\ verifier_calls <= 1)

\* a turn that used every iteration of the budget and ended with the one verifier call
C31_Witness ==
    /\ pc = "returned"
    /\ result.kind = "timeout"
    /\ max_steps = MaxSteps
    /\ step = execution_step_limit
    /\ verifier_calls = 1
    /\ verify_runs = step

(***************************************************************************)
(* The workspace sandbox (local_agent/tools.py).                           *)
(*                                                                         *)
(* A location is the sequence of names of a resolved absolute path.  The   *)
(* workspace root is /ws.  /ws/lnk is a symbolic link to /out, a file      *)
(* outside the workspace.  `files` maps the locations of the regular files *)
(* to their content (the characters on disk) and search attributes.  CR    *)
(* and LF are the carriage return and the line feed; the host is POSIX.    *)
(***************************************************************************)
MaxSegs == 2        \* segments of a path argument
MaxLen == 3         \* characters of a file's content
MaxFind == 2        \* characters of find
MaxReplace == 1     \* characters of replace
MaxWords == 3       \* words of a shell command

Workspace == <<"ws">>
LinkLoc == <<"ws", "lnk">>
LinkTarget == <<"out">>
Dirs == {<<>>, Workspace}
Segments == {"..", "a", "lnk", "ws", "out"}
Chars == {"a", "CR", "LF"}

RECURSIVE SeqsUpTo(_, _)
\* the sequences over S of length at most n
SeqsUpTo(S, n) ==
    IF n = 0 THEN {<<>>}
    ELSE LET shorter == SeqsUpTo(S, n - 1)
         IN shorter \cup {Append(q, x) : q \in shorter, x \in S}

File(content, oversized, binary) ==
    [content |-> content, oversized |-> oversized, binary |-> binary]

is_file(fs, loc) == loc \in DOMAIN fs
exists(fs, loc) == is_file(fs, loc) \/ loc \in Dirs

RECURSIVE ResolveFrom(_, _)
\* Path.resolve(): "..", and the symbolic link, taken segment by segment
ResolveFrom(at, segs) ==
    IF segs = <<>> THEN at
    ELSE LET seg == Head(segs)
             moved == IF seg = ".."
                      THEN (IF at = <<>> THEN <<>> ELSE SubSeq(at, 1, Len(at) - 1))
                      ELSE Append(at, seg)
             landed == IF moved = LinkLoc THEN LinkTarget ELSE moved
         IN ResolveFrom(landed, Tail(segs))

\* (workspace / raw_path).resolve(), or Path(raw_path).resolve() when absolute
Candidate(path) == ResolveFrom(IF path.abs THEN <<>> ELSE Workspace, path.segs)

\* candidate.relative_to(workspace) succeeds
IsPrefix(p, q) == Len(p) <= Len(q) /\ SubSeq(q, 1, Len(p)) = p
InWorkspace(loc) == IsPrefix(Workspace, loc)

ToolErr(text) == [ok |-> FALSE, error |-> text, exc |-> "ToolError"]
Raised(kind) == [ok |-> FALSE, error |-> kind, exc |-> kind]
Ok(value) == [ok |-> TRUE, error |-> "-", exc |-> "-", result |-> value]
Done(o, fs, ops) == [out |-> o, files |-> fs, io |-> ops]
Op(op, loc) == [op |-> op, at |-> loc]

PathEscape == "Path escapes workspace"
NotFound == "Path does not exist"
NotAFile == "Not a file"
InvalidRange == "Invalid line range."
EmptyFind == "find must not be empty."
NoMatch == "No matches found for find."
CountMismatch == "Replacement count mismatch."

Escapes(path) == ~InWorkspace(Candidate(path))

\* _resolve_path_or_workspace
_resolve_path_or_workspace(path) ==
    IF Escapes(path) THEN Workspace ELSE Candidate(path)

FilesUnder(fs, target) == {loc \in DOMAIN fs : IsPrefix(target, loc)}

\* Path.read_text(encoding="utf-8"): text mode reads CR LF and a lone CR as LF
read_text(bytes) ==
    LET kept == SelectSeq([i \in 1..Len(bytes) |-> i],
                          LAMBDA i : ~(bytes[i] = "LF" /\ i > 1 /\ bytes[i - 1] = "CR"))
    IN [k \in 1..Len(kept) |-> IF bytes[kept[k]] = "CR" THEN "LF" ELSE bytes[kept[k]]]

linesep == <<"LF">>
RECURSIVE write_text(_)
\* Path.write_text(text, encoding="utf-8"): text mode writes LF as os.linesep
write_text(text) ==
    IF text = <<>> THEN <<>>
    ELSE (IF Head(text) = "LF" THEN linesep ELSE <<Head(text)>>) \o write_text(Tail(text))

\* str.splitlines() of a text whose only line boundary is LF
splitlines(text) ==
    LET ends == SelectSeq([i \in 1..Len(text) |-> i], LAMBDA i : text[i] = "LF")
        closed == IF ends = <<>> THEN 0 ELSE ends[Len(ends)]
        count == Len(ends) + (IF closed < Len(text) THEN 1 ELSE 0)
    IN [k \in 1..count |->
           SubSeq(text, IF k = 1 THEN 1 ELSE ends[k - 1] + 1,
                        IF k <= Len(ends) THEN ends[k] - 1 ELSE Len(text))]

RECURSIVE join(_)
\* "\n".join(lines)
join(lines) ==
    IF lines = <<>> THEN <<>>
    ELSE IF Len(lines) = 1 THEN lines[1]
    ELSE lines[1] \o <<"LF">> \o join(Tail(lines))

\* list_files
list_files(fs, path) ==
    LET target == _resolve_path_or_workspace(path)
    IN IF ~exists(fs, target)
       THEN Done(ToolErr(NotFound), fs, {Op("stat", target)})
       ELSE Done(Ok([count |-> Cardinality(FilesUnder(fs, target)),
                     files |-> FilesUnder(fs, target)]),
                 fs, {Op("stat", target), Op("list", target)})

\* read_file
read_file(fs, path, start, end) ==
    LET resolved == Candidate(path)
    IN IF Escapes(path) THEN Done(ToolErr(PathEscape), fs, {})
       ELSE IF ~is_file(fs, resolved)
       THEN Done(ToolErr(NotAFile), fs, {Op("stat", resolved)})
       ELSE IF start < 1 \/ end < start
       THEN Done(ToolErr(InvalidRange), fs, {Op("stat", resolved)})
       ELSE LET lines == splitlines(read_text(fs[resolved].content))
            IN Done(Ok([path |-> resolved,
                        content |-> join(SubSeq(lines, start, Min(end, Len(lines)))),
                        total_lines |-> Len(lines)]),
                    fs, {Op("stat", resolved), Op("read", resolved)})

\* the filesystem after resolved.write_text(content)
Written(fs, loc, content) ==
    [l \in DOMAIN fs \cup {loc} |->
        IF l = loc
        THEN File(content, IF l \in DOMAIN fs THEN fs[l].oversized ELSE FALSE, FALSE)
        ELSE fs[l]]

\* write_file
write_file(fs, path, content) ==
    LET resolved == Candidate(path)
        parent == SubSeq(resolved, 1, Len(resolved) - 1)
    IN IF Escapes(path) THEN Done(ToolErr(PathEscape), fs, {})
       ELSE IF \E loc \in DOMAIN fs : IsPrefix(loc, parent)
       THEN Done(Raised("OSError"), fs, {Op("mkdir", parent)})
       ELSE IF resolved \in Dirs
       THEN Done(Raised("OSError"), fs, {Op("mkdir", parent), Op("write", resolved)})
       ELSE Done(Ok([path |-> resolved, bytes_written |-> Len(content)]),
                 Written(fs, resolved, write_text(content)),
                 {Op("mkdir", parent), Op("write", resolved)})

RECURSIVE str_count(_, _)
\* str.count(sub): the occurrences found scanning left to right, none overlapping
str_count(s, sub) ==
    IF sub = <<>> THEN Len(s) + 1
    ELSE IF Len(s) < Len(sub) THEN 0
    ELSE IF SubSeq(s, 1, Len(sub)) = sub
    THEN 1 + str_count(SubSeq(s, Len(sub) + 1, Len(s)), sub)
    ELSE str_count(Tail(s), sub)

RECURSIVE str_replace(_, _, _)
\* str.replace(old, new) for a non-empty old
str_replace(s, old, new) ==
    IF Len(s) < Len(old) THEN s
    ELSE IF SubSeq(s, 1, Len(old)) = old
    THEN new \o str_replace(SubSeq(s, Len(old) + 1, Len(s)), old, new)
    ELSE <<Head(s)>> \o str_replace(Tail(s), old, new)

NoExpected == [given |-> FALSE, n |-> 0]
Expected(n) == [given |-> TRUE, n |-> n]

\* `expected_replacements is not None and replacements != expected_replacements`
CountMismatchedMut(expected, replacements) == FALSE
CountMismatched(expected, replacements) ==
    expected.given /\ replacements # expected.n

\* patch_file
patch_file(fs, path, find, replace, expected_replacements) ==
    LET resolved == Candidate(path)
        original == read_text(fs[resolved].content)
        replacements == str_count(original, find)
        updated == str_replace(original, find, replace)
    IN IF find = <<>> THEN Done(ToolErr(EmptyFind), fs, {})
       ELSE IF Escapes(path) THEN Done(ToolErr(PathEscape), fs, {})
       ELSE IF ~is_file(fs, resolved)
       THEN Done(ToolErr(NotAFile), fs, {Op("stat", resolved)})
       ELSE IF replacements = 0
       THEN Done(ToolErr(NoMatch), fs, {Op("stat", resolved), Op("read", resolved)})
       ELSE IF CountMismatched(expected_replacements, replacements)
       THEN Done(ToolErr(CountMismatch), fs, {Op("stat", resolved), Op("read", resolved)})
       ELSE Done(Ok([path |-> resolved, replacements |-> replacements,
                     bytes_written |-> Len(updated)]),
                 Written(fs, resolved, write_text(updated)),
                 {Op("stat", resolved), Op("read", resolved), Op("write", resolved)})

RECURSIVE SetToSeq(_)
\* the elements of a finite set, in the order the scan meets them
SetToSeq(S) ==
    IF S = {} THEN <<>>
    ELSE LET x == CHOOSE y \in S : TRUE IN <<x>> \o SetToSeq(S \ {x})

Take(seq, n) == SubSeq(seq, 1, Min(n, Len(seq)))

_MAX_MATCHES == 200

\* _should_skip_file_for_search: over 1 MiB, or a null byte in the first 1 KiB
_should_skip_file_for_search(fs, loc) == fs[loc].oversized \/ fs[loc].binary

\* `pattern in line` / regex.search(line), the pattern being one character
LineMatches(line, pattern) == \E i \in 1..Len(line) : line[i] = pattern

NoFile == <<"-">>
\* one output line: the file it names (NoFile if it names none) and the line number
Match(file, lineno) == [file |-> file, lineno |-> lineno]

\* the matching lines of one file, in order, each naming `label`
FileMatches(fs, loc, pattern, label) ==
    LET lines == splitlines(read_text(fs[loc].content))
        hits == SelectSeq([i \in 1..Len(lines) |-> i],
                          LAMBDA i : LineMatches(lines[i], pattern))
    IN [k \in 1..Len(hits) |-> Match(label, hits[k])]

RECURSIVE Gather(_, _, _, _)
\* the matches of the files of `locs`, file after file; with `skipping`, the
\* files to be skipped are left out
Gather(fs, locs, pattern, skipping) ==
    IF locs = <<>> THEN <<>>
    ELSE (IF skipping /\ _should_skip_file_for_search(fs, Head(locs)) THEN <<>>
          ELSE FileMatches(fs, Head(locs), pattern, Head(locs)))
         \o Gather(fs, Tail(locs), pattern, skipping)

\* the orders in which a directory walk (rg's parallel walk, Path.rglob) can meet
\* the files of S: neither promises one
Orders(S) ==
    {order \in [1..Cardinality(S) -> S] :
        \A i, j \in 1..Cardinality(S) : order[i] = order[j] => i = j}

RECURSIVE rg_files(_, _, _)
\* rg over the files of a directory: file after file, --max-count 200 lines of each
rg_files(fs, locs, pattern) ==
    IF locs = <<>> THEN <<>>
    ELSE Take(FileMatches(fs, Head(locs), pattern, Head(locs)), _MAX_MATCHES)
         \o rg_files(fs, Tail(locs), pattern)

\* the lines `rg -n --max-count 200 pattern target` prints: with the file's path
\* when the target is a directory, without it when the target is one file
rg_output(fs, pattern, target, order) ==
    IF is_file(fs, target)
    THEN Take(FileMatches(fs, target, pattern, NoFile), _MAX_MATCHES)
    ELSE rg_files(fs, order, pattern)

\* the loop over matches[:200]: a line is dropped when the file its first field
\* names exists and is to be skipped; a line number names no file of the workspace
cleaned(fs, lines) ==
    SelectSeq(Take(lines, _MAX_MATCHES),
              LAMBDA m : ~(m.file # NoFile /\ is_file(fs, m.file)
                           /\ _should_skip_file_for_search(fs, m.file)))

\* search_text, the walk of a directory target meeting its files in `order`
search_text_in(fs, pattern, path, has_rg, order) ==
    LET target == _resolve_path_or_workspace(path)
        files_to_scan == IF is_file(fs, target) THEN <<target>> ELSE order
        scanned == Take(Gather(fs, files_to_scan, pattern, TRUE), _MAX_MATCHES)
        matches == IF has_rg THEN cleaned(fs, rg_output(fs, pattern, target, order))
                   ELSE scanned
    IN IF ~exists(fs, target)
       THEN Done(ToolErr(NotFound), fs, {Op("stat", target)})
       ELSE Done(Ok([count |-> Len(matches), matches |-> matches]),
                 fs, {Op("stat", target), Op("search", target)})

\* search_text
search_text(fs, pattern, path, has_rg) ==
    search_text_in(fs, pattern, path, has_rg,
                   SetToSeq(FilesUnder(fs, _resolve_path_or_workspace(path))))

(***************************************************************************)
(* The shell policy guard (local_agent/policy.py) and run_shell.           *)
(*                                                                         *)
(* A command is a run of words separated by single blanks, with or without *)
(* leading blanks, written in lower or in upper case.  A pattern is the    *)
(* sequence of word sets its expression matches within the vocabulary:     *)
(* \bsudo\b matches the word sudo and not sudoers; --\b needs a word       *)
(* character after the dashes, so it matches --ours and not a bare --.     *)
(***************************************************************************)
Words == {"sudo", "sudoers", "shutdown", "reboot", "mkfs", "rm", "-rf", "/",
          "dd", "if=x", "git", "reset", "--hard", "checkout", "--", "--ours", "ls"}

_BLOCKED_COMMAND_PATTERNS ==
    << <<{"rm"}, {"-rf"}, {"/"}>>,
       <<{"sudo"}>>,
       <<{"shutdown"}>>,
       <<{"reboot"}>>,
       <<{"mkfs"}>>,
       <<{"dd"}, {"if=x"}>>,
       <<{"git"}, {"reset"}, {"--hard"}>>,
       <<{"git"}, {"checkout"}, {"--ours"}>> >>

\* one word against one element of a pattern, under re.IGNORECASE
WordMatchesMut(wordset, word, upper) == word \in wordset /\ ~upper
WordMatches(wordset, word, upper) == word \in wordset

\* pattern.search(stripped)
PatternSearch(pattern, words, upper) ==
    \E i \in 1..Len(words) :
        /\ i + Len(pattern) - 1 <= Len(words)
        /\ \A k \in 1..Len(pattern) : WordMatches(pattern[k], words[i + k - 1], upper)

EmptyCommand == "Shell command is empty."
BlockedCommand == "Blocked shell command pattern"
Accepted == "accepted"

\* validate_shell_command: command.strip() leaves the words
validate_shell_command(command) ==
    IF command.words = <<>> THEN EmptyCommand
    ELSE IF \E n \in 1..Len(_BLOCKED_COMMAND_PATTERNS) :
               PatternSearch(_BLOCKED_COMMAND_PATTERNS[n], command.words, command.upper)
    THEN BlockedCommand
    ELSE Accepted

ProcessOutcomes == {"exit 0", "exit 1", "timeout"}

\* run_shell, the process ending as `proc`
run_shell(fs, command, proc) ==
    IF validate_shell_command(command) # Accepted
    THEN Done(ToolErr(validate_shell_command(command)), fs, {})
    ELSE IF proc = "timeout"
    THEN Done(Raised("TimeoutExpired"), fs, {Op("spawn", command)})
    ELSE Done(Ok([command |-> command, returncode |-> IF proc = "exit 0" THEN 0 ELSE 1]),
              fs, {Op("spawn", command)})

(***************************************************************************)
(* One tool call against a filesystem.                                     *)
(***************************************************************************)
Path(abs, segs) == [abs |-> abs, segs |-> segs]
Paths == {Path(abs, segs) : abs \in BOOLEAN, segs \in SeqsUpTo(Segments, MaxSegs)}
Strings(n) == SeqsUpTo(Chars, n)
Command(lead, words, upper) == [lead |-> lead, words |-> words, upper |-> upper]
NoCommand == Command(FALSE, <<>>, FALSE)

Call(tool, path, range, content, find, replace, expected, pattern, has_rg, command) ==
    [tool |-> tool, path |-> path, start |-> range[1], end |-> range[2],
     content |-> content, find |-> find, replace |-> replace,
     expected_replacements |-> expected, pattern |-> pattern, has_rg |-> has_rg,
     command |-> command]

InsideLoc == <<"ws", "a">>
OutsideLoc == <<"out">>
BigLoc == <<"ws", "big">>
BinLoc == <<"ws", "bin">>
\* /ws/a holds `content`, /ws/big is oversized, /ws/bin is binary, /out lies
\* outside the workspace
FilesWith(content) ==
    [loc \in {InsideLoc, OutsideLoc, BigLoc, BinLoc} |->
        IF loc = InsideLoc THEN File(content, FALSE, FALSE)
        ELSE IF loc = BigLoc THEN File(<<"a", "a">>, TRUE, FALSE)
        ELSE IF loc = BinLoc THEN File(<<"a">>, FALSE, TRUE)
        ELSE File(<<"a", "LF">>, FALSE, FALSE)]

\* calls that vary the path argument
PathCalls ==
    {Call("list_files", p, <<1, 200>>, <<>>, <<>>, <<>>, NoExpected, "a", h, NoCommand) :
        p \in Paths, h \in BOOLEAN}
    \cup {Call("search_text", p, <<1, 200>>, <<>>, <<>>, <<>>, NoExpected, "a", h, NoCommand) :
        p \in Paths, h \in BOOLEAN}
    \cup {Call("read_file", p, r, <<>>, <<>>, <<>>, NoExpected, "a", FALSE, NoCommand) :
        p \in Paths, r \in {<<1, 200>>, <<0, 1>>, <<2, 1>>}}
    \cup {Call("write_file", p, <<1, 200>>, <<"a", "LF">>, <<>>, <<>>, NoExpected, "a", FALSE, NoCommand) :
        p \in Paths}
    \cup {Call("patch_file", p, <<1, 200>>, <<>>, f, <<"LF">>, NoExpected, "a", FALSE, NoCommand) :
        p \in Paths, f \in {<<>>, <<"a">>}}

\* a file of the workspace and a missing file of the workspace
PatchPaths == {Path(FALSE, <<"a">>), Path(FALSE, <<"out">>)}

\* calls that vary the texts of patch_file
PatchCalls ==
    {Call("patch_file", p, <<1, 200>>, <<>>, f, r, e, "a", FALSE, NoCommand) :
        p \in PatchPaths, f \in Strings(MaxFind), r \in Strings(MaxReplace),
        e \in {NoExpected} \cup {Expected(n) : n \in 0..MaxFind}}

\* the workspace, its small file, its oversized file, its binary file, a missing file
SearchPaths == {Path(FALSE, <<>>), Path(FALSE, <<"a">>), Path(FALSE, <<"big">>),
                Path(FALSE, <<"bin">>), Path(FALSE, <<"none">>)}

\* calls that vary the target and the pattern of search_text
SearchCalls ==
    {Call("search_text", p, <<1, 200>>, <<>>, <<>>, <<>>, NoExpected, pattern, h, NoCommand) :
        p \in SearchPaths, pattern \in {"a", "b"}, h \in BOOLEAN}

\* calls that vary the command of run_shell
ShellCalls ==
    {Call("run_shell", Path(FALSE, <<>>), <<1, 200>>, <<>>, <<>>, <<>>, NoExpected, "a", FALSE,
          Command(lead, words, upper)) :
        lead \in BOOLEAN, words \in SeqsUpTo(Words, MaxWords), upper \in BOOLEAN}

InitLoopIdle ==
    /\ max_steps = 0
    /\ store = <<>>
    /\ history = <<>>
    /\ edited_files = <<>>
    /\ latest_verify_result = NoReport
    /\ repeated_error_counts = [sig \in ActionToolNames \X ErrorTexts |-> 0]
    /\ step = 0
    /\ attempts = 0
    /\ first_exc = "-"
    /\ last_exc = "-"
    /\ result = NoResult
    /\ verify_runs = 0
    /\ verifier_calls = 0
    /\ verifier_arg = NoReport
    /\ exc = "-"

InitCall ==
    /\ InitLoopIdle
    /\ pc = "call"
    /\ out = IdleOut
    /\ io = {}

InitSandbox == InitCall /\ call \in PathCalls /\ files = FilesWith(<<"a", "CR", "LF">>)
InitPatch == InitCall /\ call \in PatchCalls /\ files \in {FilesWith(c) : c \in Strings(MaxLen)}
InitSearch == InitCall /\ call \in SearchCalls /\ files \in {FilesWith(c) : c \in Strings(MaxLen)}
InitShell == InitCall /\ call \in ShellCalls /\ files = FilesWith(<<"a">>)

\* the call returns or raises
Finish(done) ==
    /\ out' = done.out
    /\ files' = done.files
    /\ io' = done.io
    /\ pc' = "done"
    /\ UNCHANGED <<call, exc, max_steps, store, history, edited_files, latest_verify_result,
                   repeated_error_counts, step, attempts, first_exc, last_exc,
                   result, verify_runs, verifier_calls, verifier_arg>>

CallListFiles ==
    /\ pc = "call" /\ call.tool = "list_files"
    /\ Finish(list_files(files, call.path))

CallReadFile ==
    /\ pc = "call" /\ call.tool = "read_file"
    /\ Finish(read_file(files, call.path, call.start, call.end))

CallWriteFile ==
    /\ pc = "call" /\ call.tool = "write_file"
    /\ Finish(write_file(files, call.path, call.content))

CallPatchFile ==
    /\ pc = "call" /\ call.tool = "patch_file"
    /\ Finish(patch_file(files, call.path, call.find, call.replace,
                         call.expected_replacements))

CallSearchText ==
    /\ pc = "call" /\ call.tool = "search_text"
    /\ \E order \in Orders(FilesUnder(files, _resolve_path_or_workspace(call.path))) :
         Finish(search_text_in(files, call.pattern, call.path, call.has_rg, order))

CallRunShell ==
    /\ pc = "call" /\ call.tool = "run_shell"
    /\ \E proc \in ProcessOutcomes : Finish(run_shell(files, call.command, proc))

NextSandbox ==
    \/ CallListFiles
    \/ CallReadFile
    \/ CallWriteFile
    \/ CallPatchFile
    \/ CallSearchText

SpecSandbox == InitSandbox /\ [][NextSandbox]_vars
SpecPatch == InitPatch /\ [][CallPatchFile]_vars
SpecShell == InitShell /\ [][CallRunShell]_vars
SpecSearch == InitSearch /\ [][CallSearchText]_vars

(***************************************************************************)
(* Claims about the sandbox tools (SpecSandbox, SpecPatch) and run_shell    *)
(* (SpecShell).                                                            *)
(***************************************************************************)
PathTools == {"list_files", "read_file", "write_file", "patch_file", "search_text"}

\* C6: a path-taking tool called with a path that resolves outside the workspace
\* root fails with the path-escape error, and with no other outcome, and performs
\* no filesystem operation.
C6_EscapeFailsWithoutIO ==
    (pc = "done" /\ call.tool \in PathTools /\ ~IsPrefix(<<"ws">>, Candidate(call.path)))
        => /\ out = ToolErr(PathEscape)
           /\ io = {}

MatchAt(s, f, i) == i + Len(f) - 1 <= Len(s) /\ SubSeq(s, i, i + Len(f) - 1) = f
\* the starts of the non-overlapping occurrences of f in s, taken from the left
Occurrences(s, f) ==
    LET starts == {i \in 1..Len(s) : MatchAt(s, f, i)}
    IN CHOOSE C \in SUBSET starts :
          \A i \in starts : (i \in C) <=> (\A j \in C : j < i => j + Len(f) <= i)

RECURSIVE Pieces(_, _, _, _, _)
\* s from position i on, with the occurrences starting in C replaced by r
Pieces(s, f, r, C, i) ==
    IF i > Len(s) THEN <<>>
    ELSE (IF i \in C THEN r
          ELSE IF \E j \in C : j < i /\ i < j + Len(f) THEN <<>>
          ELSE <<s[i]>>) \o Pieces(s, f, r, C, i + 1)
AllReplaced(s, f, r) == Pieces(s, f, r, Occurrences(s, f), 1)

\* a patch_file call on a regular file of the workspace, about to run
PatchOnFile ==
    /\ pc = "call"
    /\ call.tool = "patch_file"
    /\ IsPrefix(<<"ws">>, Candidate(call.path))
    /\ Candidate(call.path) \in DOMAIN files
PatchTarget == Candidate(call.path)
\* the occurrences of find in the file as stored
OccurrenceCount == Cardinality(Occurrences(files[PatchTarget].content, call.find))

RECURSIVE LinesAsLF(_, _)
\* the text from position i on with every line ending (CR LF, CR, LF) written LF
LinesAsLF(bytes, i) ==
    IF i > Len(bytes) THEN <<>>
    ELSE (IF bytes[i] = "LF" /\ i > 1 /\ bytes[i - 1] = "CR" THEN <<>>
          ELSE IF bytes[i] = "CR" THEN <<"LF">>
          ELSE <<bytes[i]>>) \o LinesAsLF(bytes, i + 1)
\* the occurrences of find in the text patch_file reads
TextOccurrenceCount ==
    Cardinality(Occurrences(LinesAsLF(files[PatchTarget].content, 1), call.find))
NoWrite(ops) == \A o \in ops : o.op # "write"

C8_ReplacesAll ==
    [][(pc = "call" /\ call.tool = "patch_file" /\ ~call.expected_replacements.given
          /\ IsPrefix(<<"ws">>, Candidate(call.path)))
        => IF call.find # <<>> /\ PatchTarget \in DOMAIN files /\ OccurrenceCount > 0
           THEN /\ out'.ok
                /\ out'.result.replacements = OccurrenceCount
                /\ DOMAIN files' = DOMAIN files
                /\ files'[PatchTarget].content =
                      AllReplaced(files[PatchTarget].content, call.find, call.replace)
                /\ \A loc \in DOMAIN files \ {PatchTarget} : files'[loc] = files[loc]
           ELSE /\ ~out'.ok
                /\ files' = files
                /\ NoWrite(io')]_vars

\* the word runs the guard is meant to block
BlockedPhrases ==
    {<<"rm", "-rf", "/">>, <<"sudo">>, <<"shutdown">>, <<"reboot">>, <<"mkfs">>,
     <<"dd", "if=x">>, <<"git", "reset", "--hard">>, <<"git", "checkout", "--ours">>}
NamesBlocked(words) ==
    \E phrase \in BlockedPhrases : \E i \in 1..Len(words) :
        /\ i + Len(phrase) - 1 <= Len(words)
        /\ SubSeq(words, i, i + Len(phrase) - 1) = phrase

\* C9: run_shell on a command that is empty, blank, or holds a blocked phrase in
\* any letter case fails with the policy error and spawns no process; a process is
\* spawned only for a command that is neither.
C9_PolicyBeforeSpawn ==
    (pc = "done" /\ call.tool = "run_shell") =>
        LET blank == call.command.words = <<>>
            blocked == NamesBlocked(call.command.words)
        IN /\ blank => out = ToolErr(EmptyCommand) /\ io = {}
           /\ (~blank /\ blocked) => out = ToolErr(BlockedCommand) /\ io = {}
           /\ io # {} => ~blank /\ ~blocked /\ io = {Op("spawn", call.command)}
           /\ (~blank /\ ~blocked) => io = {Op("spawn", call.command)}

C9_Witness ==
    /\ pc = "done"
    /\ call.tool = "run_shell"
    /\ call.command = Command(TRUE, <<"git", "reset", "--hard">>, TRUE)
    /\ out = ToolErr(BlockedCommand)
    /\ io = {}

\* the file or directory a search_text call searches
SearchTarget == _resolve_path_or_workspace(call.path)
Skipped(loc) == files[loc].oversized \/ files[loc].binary

\* C15: whatever the target, a directory or a single file, search_text returns
\* no match from a file over 1 MiB or with a null byte in its first 1 KiB, and
\* the external matcher and the manual scan return the same number of matches;
\* over the workspace with a small file holding the pattern on one line, a binary
\* file and an oversized file, both return one match, naming the small file.
C15_SearchSkipsLargeAndBinary ==
    (pc = "done" /\ call.tool = "search_text" /\ out.ok) =>
        /\ \A i \in 1..Len(out.result.matches) :
              LET m == out.result.matches[i]
              IN /\ m.file # NoFile => ~Skipped(m.file)
                 /\ m.file = NoFile => ~Skipped(SearchTarget)
        /\ out.result.count =
              search_text(files, call.pattern, call.path, ~call.has_rg).out.result.count
        /\ (SearchTarget = Workspace /\ call.pattern = "a"
              /\ files[InsideLoc].content = <<"a", "LF">>) =>
                 /\ out.result.count = 1
                 /\ out.result.matches[1].file = InsideLoc

(***************************************************************************)
(* The action parser, _extract_json (local_agent/orchestrator.py).          *)
(*                                                                         *)
(* A text is a sequence of characters: the braces, the double quote, the   *)
(* backslash, the colon and the digit 1 (JsonChars), the backtick BT, the  *)
(* line feed LF, and json, which stands for these four letters in a row    *)
(* (no text holds one of the letters otherwise).  Over these characters a  *)
(* JSON value is a number (digits), a string, or an object with no member  *)
(* or one member.  A model response is a body, bare or wrapped in a code   *)
(* fence; a body holds no line feed.                                       *)
(***************************************************************************)
MaxText == 5        \* symbols of a model response

JsonChars == {"{", "}", "\"", "\\", ":", "1"}
\* the pieces texts are made of: a character, or a quote and the colon after it
Symbols == {<<"{">>, <<"}">>, <<"\"">>, <<"\\">>, <<"\"", ":">>, <<"1">>}

RECURSIVE Flatten(_)
Flatten(pieces) ==
    IF pieces = <<>> THEN <<>> ELSE Head(pieces) \o Flatten(Tail(pieces))

At(s, i) == IF i >= 1 /\ i <= Len(s) THEN s[i] ELSE "end"

RECURSIVE StringEnd(_, _)
\* the scanner of a JSON string: j is inside the string that opened before it;
\* the position after the closing quote, 0 if the string is invalid
StringEnd(s, j) ==
    IF j > Len(s) THEN 0
    ELSE IF s[j] = "LF" THEN 0
    ELSE IF s[j] = "\"" THEN j + 1
    ELSE IF s[j] = "\\"
    THEN (IF At(s, j + 1) \in {"\"", "\\"} THEN StringEnd(s, j + 2) ELSE 0)
    ELSE StringEnd(s, j + 1)

RECURSIVE NumberEnd(_, _)
NumberEnd(s, i) == IF At(s, i) = "1" THEN NumberEnd(s, i + 1) ELSE i

RECURSIVE ValueEnd(_, _)
\* the JSON decoder: the position after the value that starts at i, 0 if none
ValueEnd(s, i) ==
    IF At(s, i) = "1" THEN NumberEnd(s, i)
    ELSE IF At(s, i) = "\"" THEN StringEnd(s, i + 1)
    ELSE IF At(s, i) = "{"
    THEN IF At(s, i + 1) = "}" THEN i + 2
         ELSE IF At(s, i + 1) # "\"" THEN 0
         ELSE LET key == StringEnd(s, i + 2)
              IN IF key = 0 \/ At(s, key) # ":" THEN 0
                 ELSE LET member == ValueEnd(s, key + 1)
                      IN IF member = 0 \/ At(s, member) # "}" THEN 0 ELSE member + 1
    ELSE 0

JSONDecodeError == Raised("JSONDecodeError")
KindOf(s) == IF s[1] = "{" THEN "object" ELSE IF s[1] = "\"" THEN "string" ELSE "number"
\* json.loads(s)
json_loads(s) ==
    IF s # <<>> /\ ValueEnd(s, 1) = Len(s) + 1
    THEN Ok([kind |-> KindOf(s), src |-> s])
    ELSE JSONDecodeError

\* raw.find("{"), 0 for -1
find_brace(raw) ==
    IF \E i \in 1..Len(raw) : raw[i] = "{"
    THEN CHOOSE i \in 1..Len(raw) : raw[i] = "{" /\ \A j \in 1..(i - 1) : raw[j] # "{"
    ELSE 0

\* `if ch == '"'` outside a string
OpensStringMut(ch) == FALSE
OpensString(ch) == ch = "\""

RECURSIVE scan(_, _, _, _, _)
\* the for loop of the fallback: the index at which depth returns to 0, 0 if never
scan(raw, idx, depth, in_string, escape) ==
    IF idx > Len(raw) THEN 0
    ELSE LET ch == raw[idx]
         IN IF in_string
            THEN IF escape THEN scan(raw, idx + 1, depth, TRUE, FALSE)
                 ELSE IF ch = "\\" THEN scan(raw, idx + 1, depth, TRUE, TRUE)
                 ELSE IF ch = "\"" THEN scan(raw, idx + 1, depth, FALSE, FALSE)
                 ELSE scan(raw, idx + 1, depth, TRUE, FALSE)
            ELSE IF OpensString(ch) THEN scan(raw, idx + 1, depth, TRUE, escape)
            ELSE IF ch = "{" THEN scan(raw, idx + 1, depth + 1, FALSE, escape)
            ELSE IF ch = "}"
            THEN (IF depth - 1 = 0 THEN idx
                  ELSE scan(raw, idx + 1, depth - 1, FALSE, escape))
            ELSE scan(raw, idx + 1, depth, FALSE, escape)

RECURSIVE lstrip(_, _)
lstrip(s, chars) ==
    IF s # <<>> /\ Head(s) \in chars THEN lstrip(Tail(s), chars) ELSE s
RECURSIVE rstrip(_, _)
rstrip(s, chars) ==
    IF s # <<>> /\ s[Len(s)] \in chars
    THEN rstrip(SubSeq(s, 1, Len(s) - 1), chars) ELSE s

\* str.strip(): white space off both ends
strip(s) == rstrip(lstrip(s, {"LF"}), {"LF"})
\* raw.strip("BT")
strip_backticks(s) == rstrip(lstrip(s, {"BT"}), {"BT"})

RECURSIVE replace_first(_, _)
\* str.replace(old, "", 1) for an old of one character
replace_first(s, old) ==
    IF s = <<>> THEN <<>>
    ELSE IF Head(s) = old THEN Tail(s)
    ELSE <<Head(s)>> \o replace_first(Tail(s), old)

\* raw.replace("json", "", 1) in the code-fence branch
DropLanguageTag(s) == replace_first(s, "json")

\* raw.startswith of three backticks
startswith_fence(raw) ==
    Len(raw) >= 3 /\ raw[1] = "BT" /\ raw[2] = "BT" /\ raw[3] = "BT"

\* the first four lines of _extract_json: raw before it is decoded
unfenced(chars) ==
    LET raw == strip(chars)
    IN IF startswith_fence(raw)
       THEN strip(DropLanguageTag(strip_backticks(raw)))
       ELSE raw

Text(fence, body) == [fence |-> fence, body |-> body]
FenceKinds == {"none", "plain", "json"}

\* the characters of a model response
Rendered(text) ==
    IF text.fence = "none" THEN text.body
    ELSE IF text.fence = "plain"
    THEN <<"BT", "BT", "BT", "LF">> \o text.body \o <<"LF", "BT", "BT", "BT">>
    ELSE <<"BT", "BT", "BT", "json", "LF">> \o text.body \o <<"LF", "BT", "BT", "BT">>

\* _extract_json
_extract_json(text) ==
    LET raw == unfenced(Rendered(text))
        start == find_brace(raw)
        stop == scan(raw, start, 0, FALSE, FALSE)
    IN IF json_loads(raw).ok THEN json_loads(raw)
       ELSE IF start = 0 THEN JSONDecodeError
       ELSE IF stop = 0 THEN JSONDecodeError
       ELSE json_loads(SubSeq(raw, start, stop))

\* objects with a brace, a quote, a backslash, a backtick or json inside a
\* string, and an unbalanced one
Cores ==
    {<<"{", "\"", "json", "\"", ":", "1", "}">>,
     <<"{", "\"", "BT", "\"", ":", "\"", "1", "json", "BT", "\"", "}">>,
     <<"{", "\"", "BT", "BT", "BT", "\"", ":", "1", "}">>} \cup
    {<<"{", "\"", "{", "\"", ":", "1", "}">>,
     <<"{", "\"", "}", "\"", ":", "1", "}">>,
     <<"{", "\"", "\\", "\"", "\"", ":", "1", "}">>,
     <<"{", "\"", "\\", "\\", "\"", ":", "{", "}", "}">>,
     <<"{", "\"", "\"", ":", "{", "\"", "}", "\"", ":", "1", "}", "}">>,
     <<"{", "\"", "\"", ":", "\"", "}", "}">>}
Bodies ==
    {Flatten(pieces) : pieces \in SeqsUpTo(Symbols, MaxText)}
    \cup {pre \o core \o post : pre \in {<<>>, <<"1">>, <<"{">>, <<"\"">>},
                                core \in Cores,
                                post \in {<<>>, <<"1">>, <<"}">>, <<"\"">>}}
ParseCalls ==
    {[tool |-> "_extract_json", text |-> Text(fence, body)] :
        fence \in FenceKinds, body \in Bodies}

InitParse == InitCall /\ call \in ParseCalls /\ files = <<>>

CallExtractJson ==
    /\ pc = "call" /\ call.tool = "_extract_json"
    /\ Finish(Done(_extract_json(call.text), files, {}))

SpecParse == InitParse /\ [][CallExtractJson]_vars

(***************************************************************************)
(* Claims about the action parser, checked under SpecParse.                *)
(***************************************************************************)
\* C18: the parser returns a mapping or fails with the decode error; it never
\* returns a list, a string, a number or null.
C18_ParserReturnsObject ==
    (pc = "done" /\ call.tool = "_extract_json") =>
        \/ out = JSONDecodeError
        \/ out.ok /\ out.result.kind = "object"

RECURSIVE BackslashesBefore(_, _)
\* the length of the run of backslashes that ends right before position k
BackslashesBefore(s, k) ==
    IF k > 1 /\ s[k - 1] = "\\" THEN 1 + BackslashesBefore(s, k - 1) ELSE 0

RECURSIVE Quoted(_, _, _)
\* position k lies inside a double-quoted string that opened at or after `from`:
\* a quote outside a string opens one, a quote inside closes it unless an odd
\* number of backslashes precedes it
Quoted(s, from, k) ==
    IF k <= from THEN FALSE
    ELSE LET before == Quoted(s, from, k - 1)
             toggles == /\ s[k - 1] = "\""
                        /\ (before => BackslashesBefore(s, k - 1) % 2 = 0)
         IN IF toggles THEN ~before ELSE before

\* the braces open at position k, counted from `from`, those inside strings left out
Depth(s, from, k) ==
    Cardinality({j \in from..k : s[j] = "{" /\ ~Quoted(s, from, j)})
    - Cardinality({j \in from..k : s[j] = "}" /\ ~Quoted(s, from, j)})

\* raw, the text the parser decodes
ParsedBody == unfenced(Rendered(call.text))
FirstBrace == CHOOSE i \in 1..Len(ParsedBody) :
                 ParsedBody[i] = "{" /\ \A j \in 1..(i - 1) : ParsedBody[j] # "{"
Closers == {k \in FirstBrace..Len(ParsedBody) :
               /\ ParsedBody[k] = "}"
               /\ ~Quoted(ParsedBody, FirstBrace, k)
               /\ Depth(ParsedBody, FirstBrace, k) = 0}
MatchingBrace == CHOOSE k \in Closers : \A j \in Closers : k <= j
Balanced == SubSeq(ParsedBody, FirstBrace, MatchingBrace)

\* C19: when the whole text does not decode, the parser takes the text from the
\* first opening brace to its matching closing brace, braces inside double-quoted
\* strings (backslash-escaped quotes respected) not counting, and returns its
\* decoding; it fails if there is no opening brace, if the brace is never
\* matched, or if that text does not decode.
C19_FallbackScan ==
    (pc = "done" /\ call.tool = "_extract_json" /\ ~json_loads(ParsedBody).ok) =>
        IF \A i \in 1..Len(ParsedBody) : ParsedBody[i] # "{" THEN out = JSONDecodeError
        ELSE IF Closers = {} THEN out = JSONDecodeError
        ELSE IF ValueEnd(Balanced, 1) = Len(Balanced) + 1
        THEN out = Ok([kind |-> "object", src |-> Balanced])
        ELSE out = JSONDecodeError

C19_Witness ==
    /\ pc = "done"
    /\ call.tool = "_extract_json"
    /\ call.text = Text("none", <<"1", "{", "\"", "}", "\"", ":", "1", "}", "}">>)
    /\ out = Ok([kind |-> "object", src |-> <<"{", "\"", "}", "\"", ":", "1", "}">>])

\* C29: a JSON object text wrapped in a code fence, with or without the json
\* language tag, parses to the same object as the text alone, also when the
\* text holds json or backticks inside its strings.
C29_FencePreservesPayload ==
    (/\ pc = "done" /\ call.tool = "_extract_json"
     /\ call.text.fence # "none"
     /\ json_loads(call.text.body).ok
     /\ json_loads(call.text.body).result.kind = "object") =>
        /\ out = json_loads(call.text.body)
        /\ out = _extract_json(Text("none", call.text.body))

(***************************************************************************)
(* The action normalizer, _normalize_action.                               *)
(*                                                                         *)
(* A decoded object is a mapping; of its keys the normalizer reads type,   *)
(* name and args.  A value is a string, a number, a list, a mapping, or    *)
(* absent.                                                                 *)
(***************************************************************************)
Str(v) == [py |-> "str", v |-> v]
Absent == [py |-> "absent", v |-> "-"]
Number == [py |-> "int", v |-> "5"]
List == [py |-> "list", v |-> "[]"]
Dict(v) == [py |-> "dict", v |-> v]

Object(type, name, args) == [type |-> type, name |-> name, args |-> args]

\* hash(value) raises TypeError
Unhashable(value) == value.py \in {"list", "dict"}
IsKnownTool(value) == value.py = "str" /\ value.v \in _KNOWN_TOOL_NAMES

\* _normalize_action
_normalize_action(action_data) ==
    LET action_type == action_data.type
    IN IF Unhashable(action_type) THEN Raised("TypeError")
       ELSE IF action_type \in {Str("tool"), Str("message")} THEN Ok(action_data)
       ELSE IF IsKnownTool(action_type)
       THEN Ok(Object(Str("tool"), action_type,
                      IF action_data.args = Absent THEN Dict("{}") ELSE action_data.args))
       ELSE IF IsKnownTool(action_data.name) /\ action_data.args.py = "dict"
       THEN Ok(Object(Str("tool"), action_data.name, action_data.args))
       ELSE Ok(action_data)

TypeValues == {Absent, Str("tool"), Str("message"), Str("read_file"), Str("run_shell"),
               Str("other"), Number, List, Dict("{}")}
NameValues == {Absent, Str("read_file"), Str("nope"), Number, List}
ArgsValues == {Absent, Dict("{}"), Dict("{path}"), List, Str("x")}

NormalizeCalls ==
    {[tool |-> "_normalize_action", action_data |-> Object(t, n, a)] :
        t \in TypeValues, n \in NameValues, a \in ArgsValues}

InitNormalize == InitCall /\ call \in NormalizeCalls /\ files = <<>>

CallNormalizeAction ==
    /\ pc = "call" /\ call.tool = "_normalize_action"
    /\ Finish(Done(_normalize_action(call.action_data), files, {}))

SpecNormalize == InitNormalize /\ [][CallNormalizeAction]_vars

\* C20: the normalizer rejects no decoded object and is idempotent; an object of
\* type tool or message is returned unchanged; an object whose type is a known
\* tool name becomes type tool with name set to that type and args defaulted to
\* the empty mapping; an object with a known tool name and a mapping args becomes
\* type tool; every other object is returned unchanged.
C20_NormalizerIdempotent ==
    (pc = "done" /\ call.tool = "_normalize_action") =>
        LET x == call.action_data
        IN /\ out.ok
           /\ _normalize_action(out.result) = out
           /\ out.result =
                 IF x.type \in {Str("tool"), Str("message")} THEN x
                 ELSE IF x.type.py = "str" /\ x.type.v \in _KNOWN_TOOL_NAMES
                 THEN [type |-> Str("tool"), name |-> x.type,
                       args |-> IF x.args = Absent THEN Dict("{}") ELSE x.args]
                 ELSE IF x.name.py = "str" /\ x.name.v \in _KNOWN_TOOL_NAMES
                         /\ x.args.py = "dict"
                 THEN [x EXCEPT !.type = Str("tool")]
                 ELSE x

(***************************************************************************)
(* Folding a tool result into the history: _clip,                          *)
(* _compact_tool_result_payload and the entries run_once appends.          *)
(*                                                                         *)
(* A text is its length in characters and a list its number of entries; a  *)
(* key a mapping does not hold is NoField.  A tool result is the mapping   *)
(* run_once builds: ok, the tool name, the error text and, for a           *)
(* successful dispatch or a verification report, the key result.  The      *)
(* length of a JSON text is the sum of the lengths of the texts and lists  *)
(* it holds: keys and punctuation are not counted.                         *)
(***************************************************************************)
_MAX_TOOL_RESULT_CHARS == 1800
FieldChars == 1500
ListCap == 40
MarkerChars == 14      \* len("...(truncated)")
NoField == 0 - 1

\* _clip(text, max_chars)
_clip(text, max_chars) ==
    IF text <= max_chars THEN text ELSE max_chars + MarkerChars

\* the keys of a result mapping that the payload compaction or its callers read;
\* `nested` is the text of the values held under any other key
ResultMapping(stdout, stderr, content, file_list, matches, nested) ==
    [stdout |-> stdout, stderr |-> stderr, content |-> content,
     files |-> file_list, matches |-> matches, nested |-> nested,
     files_truncated |-> NoField, matches_truncated |-> NoField]

ToolResult(ok, tool, error, has_result, res) ==
    [ok |-> ok, tool |-> tool, error |-> error, has_result |-> has_result,
     result |-> res]

\* result[key] = _clip(result[key], 1500) for a key the mapping holds
ClipField(value) == IF value = NoField THEN NoField ELSE _clip(value, FieldChars)
\* result[key] = value[:40] for a list of more than 40 entries
CapList(value) == IF value > ListCap THEN ListCap ELSE value
\* result[key + "_truncated"] = len(value) - 40
Remainder(value) == IF value > ListCap THEN value - ListCap ELSE NoField

\* _compact_tool_result_payload
_compact_tool_result_payload(tool_result) ==
    IF ~tool_result.has_result THEN tool_result
    ELSE LET r == tool_result.result
         IN [tool_result EXCEPT !.result =
               [r EXCEPT !.stdout = ClipField(r.stdout),
                         !.stderr = ClipField(r.stderr),
                         !.content = ClipField(r.content),
                         !.files = CapList(r.files),
                         !.matches = CapList(r.matches),
                         !.files_truncated = Remainder(r.files),
                         !.matches_truncated = Remainder(r.matches)]]

Chars_of(value) == IF value = NoField THEN 0 ELSE value

\* len(compact_json(data))
compact_json(data) ==
    Chars_of(data.tool) + Chars_of(data.error)
    + (IF data.has_result
       THEN Chars_of(data.result.stdout) + Chars_of(data.result.stderr)
            + Chars_of(data.result.content) + Chars_of(data.result.files)
            + Chars_of(data.result.matches) + Chars_of(data.result.nested)
       ELSE 0)

\* the result entry run_once appends for a schema-invalid tool action
InvalidActionEntry(tool_result) ==
    [text |-> compact_json(tool_result), payload |-> tool_result]

\* the result entry run_once appends for a dispatch or a verification report
CompactEntry(tool_result) ==
    LET compact_tool_result == _compact_tool_result_payload(tool_result)
    IN [text |-> _clip(compact_json(compact_tool_result), _MAX_TOOL_RESULT_CHARS),
        payload |-> compact_tool_result]

NoResultMapping == ResultMapping(NoField, NoField, NoField, NoField, NoField, NoField)
TextSizes == {0, 1500, 1501, 1800, 8000}
ListSizes == {0, 40, 41, 200}
NameSizes == {9, 3000}

\* the tool results a turn can build
FoldedResults ==
    {[origin |-> "invalid", tool_result |-> ToolResult(FALSE, n, e, FALSE, NoResultMapping)] :
        n \in NameSizes, e \in {200, 1500}}
    \cup
    {[origin |-> "dispatch", tool_result |-> ToolResult(FALSE, n, e, FALSE, NoResultMapping)] :
        n \in NameSizes, e \in TextSizes \ {0}}
    \cup
    {[origin |-> "dispatch",
      tool_result |-> ToolResult(TRUE, 9, NoField, TRUE,
                         ResultMapping(so, se, NoField, NoField, NoField, 0))] :
        so \in TextSizes, se \in TextSizes}
    \cup
    {[origin |-> "dispatch",
      tool_result |-> ToolResult(TRUE, 9, NoField, TRUE,
                         ResultMapping(NoField, NoField, c, NoField, NoField, 0))] :
        c \in TextSizes}
    \cup
    {[origin |-> "dispatch",
      tool_result |-> ToolResult(TRUE, 9, NoField, TRUE,
                         ResultMapping(NoField, NoField, NoField, f, m, 0))] :
        f \in ListSizes \cup {NoField}, m \in ListSizes \cup {NoField}}
    \cup
    {[origin |-> "auto_verify",
      tool_result |-> ToolResult(p, 11, NoField, TRUE,
                         ResultMapping(NoField, NoField, NoField, NoField, NoField, n))] :
        p \in BOOLEAN, n \in TextSizes}

FoldCalls == {[tool |-> "fold_result", folded |-> f] : f \in FoldedResults}

InitFold == InitCall /\ call \in FoldCalls /\ files = <<>>

CallFoldResult ==
    /\ pc = "call" /\ call.tool = "fold_result"
    /\ Finish(Done(Ok(IF call.folded.origin = "invalid"
                      THEN InvalidActionEntry(call.folded.tool_result)
                      ELSE CompactEntry(call.folded.tool_result)),
                   files, {}))

SpecFold == InitFold /\ [][CallFoldResult]_vars

\* C22: every tool-result entry appended to the history, for a dispatch, a
\* schema-invalid tool action or a verification report, is clipped: its text has
\* at most 1800 characters plus the truncation marker, its stdout, stderr and
\* content have at most 1500 characters plus the marker (the command output held
\* by a verification report included), and its files and matches hold at most 40
\* entries, with a remainder count of the original length minus 40.
C22_ResultsClipped ==
    (pc = "done" /\ call.tool = "fold_result") =>
        LET entry == out.result
            before == call.folded.tool_result.result
            after == entry.payload.result
        IN /\ entry.text <= _MAX_TOOL_RESULT_CHARS + MarkerChars
           /\ \A value \in {after.stdout, after.stderr, after.content, after.nested} :
                 value <= FieldChars + MarkerChars
           /\ after.files <= ListCap
           /\ after.matches <= ListCap
           /\ before.files > ListCap => after.files_truncated = before.files - ListCap
           /\ before.matches > ListCap => after.matches_truncated = before.matches - ListCap

(***************************************************************************)
(* Verification after an edit: _auto_verify and the lines of run_once that *)
(* fold its report into the history.  A command of the verification exits  *)
(* with a return code or runs into the shell timeout.                      *)
(***************************************************************************)
CompileCommand == "python3 -m compileall -q ."
BehaviorCommand == "PYTHONPATH=. python3 -m unittest tests/test_search_text_behavior.py -v"

Exit(returncode) == [timed_out |-> FALSE, returncode |-> returncode]
TimedOut == [timed_out |-> TRUE, returncode |-> 0]
ShellOutcomes == {Exit(0), Exit(1), Exit(2), Exit(5), Exit(0 - 9), TimedOut}

\* _auto_verify: the commands run, in order, and the report returned
_auto_verify(compile_result, behavior_result) ==
    IF compile_result.timed_out
    THEN [raised |-> TRUE, commands |-> <<CompileCommand>>, report |-> NoReport]
    ELSE IF behavior_result.timed_out
    THEN [raised |-> TRUE, commands |-> <<CompileCommand, BehaviorCommand>>,
          report |-> NoReport]
    ELSE [raised |-> FALSE, commands |-> <<CompileCommand, BehaviorCommand>>,
          report |-> Report(compile_result.returncode = 0,
                            behavior_result.returncode = 0)]

\* run_once after a successful edit: verify, fold the report, notify
verify_after_edit(compile_result, behavior_result, on_verify_error) ==
    LET verified == _auto_verify(compile_result, behavior_result)
    IN IF verified.raised
       THEN [ok |-> FALSE, error |-> "TimeoutExpired", exc |-> "TimeoutExpired",
             commands |-> verified.commands]
       ELSE Ok([commands |-> verified.commands,
                latest_verify_result |-> verified.report,
                appended |-> <<VerifyEntry(verified.report)>>,
                notified |-> ~verified.report.overall_pass /\ on_verify_error])

VerifyCalls ==
    {[tool |-> "_auto_verify", compile |-> c, behavior |-> b, on_verify_error |-> cb] :
        c \in ShellOutcomes, b \in ShellOutcomes, cb \in BOOLEAN}

InitVerify == InitCall /\ call \in VerifyCalls /\ files = <<>>

CallAutoVerify ==
    /\ pc = "call" /\ call.tool = "_auto_verify"
    /\ Finish(Done(verify_after_edit(call.compile, call.behavior, call.on_verify_error),
                   files, {}))

SpecVerify == InitVerify /\ [][CallAutoVerify]_vars

\* C24: a verification runs the compile check and then the behavior check, the
\* second whatever the exit code of the first; its report has overall_pass true
\* exactly when both exited 0; the report is appended to the history as one
\* tool-result entry of auto_verify whose ok flag is overall_pass; and the
\* verify-error callback, when one is registered, is called exactly when
\* overall_pass is false.  A verification that runs into the shell timeout
\* produces no report.
C24_VerificationReport ==
    (pc = "done" /\ call.tool = "_auto_verify") =>
        IF call.compile.timed_out \/ call.behavior.timed_out
        THEN ~out.ok
        ELSE /\ out.ok
             /\ out.result.commands = <<CompileCommand, BehaviorCommand>>
             /\ out.result.latest_verify_result.overall_pass
                   = (call.compile.returncode = 0 /\ call.behavior.returncode = 0)
             /\ out.result.latest_verify_result.compile = (call.compile.returncode = 0)
             /\ out.result.latest_verify_result.behavior = (call.behavior.returncode = 0)
             /\ Len(out.result.appended) = 1
             /\ IsVerifyEntry(out.result.appended[1])
             /\ out.result.appended[1].role = "user"
             /\ out.result.appended[1].ok = out.result.latest_verify_result.overall_pass
             /\ call.on_verify_error =>
                   (out.result.notified = ~out.result.latest_verify_result.overall_pass)
             /\ ~call.on_verify_error => ~out.result.notified

C24_Witness ==
    /\ pc = "done"
    /\ call.tool = "_auto_verify"
    /\ call.compile = Exit(1)
    /\ call.behavior = Exit(0)
    /\ out.ok
    /\ out.result.commands = <<CompileCommand, BehaviorCommand>>
    /\ ~out.result.appended[1].ok
    /\ out.result.notified

(***************************************************************************)
(* Argument repair before dispatch: _repair_tool_args, the two guesses it  *)
(* takes from the user instruction, and the required-argument tests of     *)
(* dispatch_tool.  The args of a tool action are a mapping from keys to    *)
(* values; a user instruction is what the two regular expressions find in  *)
(* it: its tokens ending in .py, its backtick-quoted tokens, and its       *)
(* identifier-like words of three characters or more, each in text order.  *)
(***************************************************************************)
ArgKeys == {"path", "content", "pattern", "find", "replace", "command"}
None == "None"

\* _TOOL_REQUIRED_ARGS.get(tool_name, []): the required keys, in schema order
_TOOL_REQUIRED_ARGS(tool_name) ==
    IF tool_name = "read_file" THEN <<"path">>
    ELSE IF tool_name = "write_file" THEN <<"path", "content">>
    ELSE IF tool_name = "search_text" THEN <<"pattern">>
    ELSE IF tool_name = "patch_file" THEN <<"path", "find", "replace">>
    ELSE IF tool_name = "run_shell" THEN <<"command">>
    ELSE <<>>

UserText(py_tokens, backticked, words) ==
    [py_tokens |-> py_tokens, backticked |-> backticked, words |-> words]

\* _extract_first_file_path
_extract_first_file_path(text) ==
    IF text.py_tokens = <<>> THEN None ELSE Head(text.py_tokens)

\* _derive_pattern_from_request: the first backtick token that is not blank,
\* else the first identifier-like word
_derive_pattern_from_request(text) ==
    LET tokens == SelectSeq(text.backticked, LAMBDA token : token # " ")
    IN IF tokens # <<>> THEN Head(tokens)
       ELSE IF text.words # <<>> THEN Head(text.words)
       ELSE None

\* dict(args) with key set to value
WithKeyMut(args, key, value) == [k \in {key} |-> value]
WithKey(args, key, value) ==
    [k \in DOMAIN args \cup {key} |-> IF k = key THEN value ELSE args[k]]

InSeq(x, seq) == \E i \in 1..Len(seq) : seq[i] = x

\* _repair_tool_args
_repair_tool_args(tool_name, args, user_input) ==
    LET required == _TOOL_REQUIRED_ARGS(tool_name)
        guessed_path == _extract_first_file_path(user_input)
        with_path ==
            IF InSeq("path", required) /\ "path" \notin DOMAIN args
               /\ guessed_path # None
            THEN WithKey(args, "path", guessed_path) ELSE args
        guessed_pattern == _derive_pattern_from_request(user_input)
    IN IF tool_name = "search_text" /\ "pattern" \notin DOMAIN with_path
          /\ guessed_pattern # None
       THEN WithKey(with_path, "pattern", guessed_pattern) ELSE with_path

\* the keys dispatch_tool passes through _require_arg for the tool, in call order
RequireArgKeys(name) ==
    IF name = "read_file" THEN <<"path">>
    ELSE IF name = "write_file" THEN <<"path", "content">>
    ELSE IF name = "search_text" THEN <<"pattern">>
    ELSE IF name = "patch_file" THEN <<"path", "find", "replace">>
    ELSE IF name = "run_shell" THEN <<"command">>
    ELSE <<>>

\* dispatch_tool up to the call of the tool function: the first key _require_arg
\* misses raises ToolError, an unknown name raises ToolError, else the tool runs
dispatch_tool(name, args) ==
    LET keys == RequireArgKeys(name)
        missing == {i \in 1..Len(keys) : keys[i] \notin DOMAIN args}
    IN IF name \notin _KNOWN_TOOL_NAMES
       THEN [ran |-> FALSE, error |-> "Unknown tool", key |-> None]
       ELSE IF missing # {}
       THEN [ran |-> FALSE, error |-> MissingArg,
             key |-> keys[CHOOSE i \in missing : \A j \in missing : i <= j]]
       ELSE [ran |-> TRUE, error |-> None, key |-> None]

UserTexts ==
    {UserText(<<>>, <<>>, <<"fix">>),
     UserText(<<"a.py", "b.py">>, <<"foo">>, <<"fix", "foo">>),
     UserText(<<"a.py">>, <<>>, <<>>),
     UserText(<<>>, <<" ", "bar">>, <<"bar">>),
     UserText(<<>>, <<" ">>, <<>>)}

\* the value the model gave for a key
Supplied(key) == "model " \o key

RepairCalls ==
    {[tool |-> "_repair_tool_args", name |-> name,
      args |-> [k \in keys |-> Supplied(k)], user_input |-> text] :
        name \in ActionToolNames, keys \in SUBSET ArgKeys, text \in UserTexts}

InitRepair == InitCall /\ call \in RepairCalls /\ files = <<>>

\* run_once: dispatch_tool(name, _repair_tool_args(name, args, user_input))
CallRepairAndDispatch ==
    /\ pc = "call" /\ call.tool = "_repair_tool_args"
    /\ LET repaired == _repair_tool_args(call.name, call.args, call.user_input)
       IN Finish(Done(Ok([args |-> repaired,
                          dispatch |-> dispatch_tool(call.name, repaired)]),
                      files, {}))

SpecRepair == InitRepair /\ [][CallRepairAndDispatch]_vars

SmallPatchInstruction == Entry("user", "small_patch", "-", TRUE, "-", 0)

\* the positions messages[-2:] takes from a list of n entries
LastTwo(n) == IF n >= 2 THEN <<n - 1, n>> ELSE IF n = 1 THEN <<1>> ELSE <<>>

\* reduced_messages, with the positions of `messages` its entries come from
reduced_messages(messages) ==
    LET positions == <<1>> \o LastTwo(Len(messages))
    IN [positions |-> positions,
        request |-> [i \in 1..Len(positions) |-> messages[positions[i]]]
                        \o <<SmallPatchInstruction>>]

\* what one iteration of the loop appends to the history
IterationEntries ==
    {<<ActionEntry("read_file"), ResultEntry("read_file", TRUE, "-")>>,
     <<ActionEntry("read_file"), ResultEntry("read_file", FALSE, ToolFailure)>>,
     <<ActionEntry("read_file"), ResultEntry("read_file", FALSE, MissingArg),
       CorrectionEntry("read_file")>>,
     <<ProgressEntry(Content({"i will now"}, TRUE)), ContinueEntry>>,
     <<ActionEntry("write_file"), ResultEntry("write_file", TRUE, "-"),
       VerifyEntry(Report(TRUE, FALSE))>>}

\* the histories of a turn of up to two iterations
Histories ==
    LET seeded == {<<SystemEntry>>
                     \o [i \in 1..n |-> SeedEntry(PriorRow(i))]
                     \o <<InstructionEntry>> : n \in {0, 1, _MAX_HISTORY_MESSAGES}}
        tails == {<<>>} \cup IterationEntries
                 \cup {a \o b : a \in IterationEntries, b \in IterationEntries}
    IN {h \o t : h \in seeded, t \in tails}

ReduceCalls == {[tool |-> "_model_step", messages |-> h] : h \in Histories}

InitReduce == InitCall /\ call \in ReduceCalls /\ files = <<>>

CallThirdRequest ==
    /\ pc = "call" /\ call.tool = "_model_step"
    /\ Finish(Done(Ok(reduced_messages(call.messages)), files, {}))

SpecReduce == InitReduce /\ [][CallThirdRequest]_vars

\* C26: the third request of a step holds the first entry of the history, then
\* its last two entries, then the small-patch instruction, and nothing else; no
\* entry of the history is in it twice, whatever the length of the history.
C26_ReducedRequest ==
    (pc = "done" /\ call.tool = "_model_step") =>
        LET n == Len(call.messages)
            positions == out.result.positions
            request == out.result.request
        IN /\ Len(request) = Len(positions) + 1
           /\ request[Len(request)] = SmallPatchInstruction
           /\ \A i \in 1..Len(positions) : request[i] = call.messages[positions[i]]
           /\ {positions[i] : i \in 1..Len(positions)} = {1, n - 1, n}
           /\ \A i \in 1..Len(positions) : \A j \in 1..Len(positions) :
                 i < j => positions[i] < positions[j]

(***************************************************************************)
(* The cap of search_text (local_agent/tools.py), checked under            *)
(* SpecSearchCap: the small file of the workspace holds a few matching     *)
(* lines, the oversized one holds none, or about as many as the cap.       *)
(***************************************************************************)
MaxSmall == 2       \* matching lines of the small file
MaxOver == 1        \* lines of the oversized file below and beyond the cap

\* a text of n lines, each holding the character a
Lines(n) == [i \in 1..(2 * n) |-> IF i % 2 = 1 THEN "a" ELSE "LF"]

\* /ws/a holds `small` lines, the oversized /ws/big holds `big` lines
FilesHolding(small, big) ==
    [FilesWith(Lines(small)) EXCEPT ![BigLoc] = File(Lines(big), TRUE, FALSE)]

SearchCapPaths == {Path(FALSE, <<>>), Path(FALSE, <<"a">>), Path(FALSE, <<"big">>)}
SearchCapCalls ==
    {Call("search_text", p, <<1, 200>>, <<>>, <<>>, <<>>, NoExpected, pattern, h, NoCommand) :
        p \in SearchCapPaths, pattern \in {"a", "b"}, h \in BOOLEAN}

InitSearchCap ==
    /\ InitCall
    /\ call \in SearchCapCalls
    /\ \E small \in 0..MaxSmall :
       \E big \in {0} \cup ((_MAX_MATCHES - MaxOver)..(_MAX_MATCHES + MaxOver)) :
          files = FilesHolding(small, big)

SpecSearchCap == InitSearchCap /\ [][CallSearchText]_vars

\* the matching lines of the files under the target that are not to be skipped
EligibleMatches ==
    UNION {{FileMatches(files, loc, call.pattern, loc)[k] :
               k \in 1..Len(FileMatches(files, loc, call.pattern, loc))} :
           loc \in {l \in FilesUnder(files, SearchTarget) : ~Skipped(l)}}

\* the lines a finished search returned; a line without a file name is a line of
\* the single file searched
ReturnedMatches ==
    {IF out.result.matches[i].file = NoFile
     THEN Match(SearchTarget, out.result.matches[i].lineno)
     ELSE out.result.matches[i] : i \in 1..Len(out.result.matches)}

\* C32: when the files under the target that are neither oversized nor binary hold
\* at most 200 matching lines, search_text returns every one of them, with the
\* external matcher as with the manual scan, however many matching lines the
\* oversized and the binary files hold.
C32_EligibleMatchesKept ==
    (pc = "done" /\ call.tool = "search_text" /\ out.ok
        /\ Cardinality(EligibleMatches) <= _MAX_MATCHES)
        => EligibleMatches \subseteq ReturnedMatches

====
